---------------------------- MODULE Spec2Model ----------------------------
(***************************************************************************)
(* Model of the http-cache decision engine (http-cache/src/lib.rs) driven  *)
(* by a client middleware (http-cache-reqwest/src/lib.rs): the cache       *)
(* store behind the CacheManager trait, the four engine operations         *)
(* before_request, after_remote_fetch, before_conditional_fetch and        *)
(* after_conditional_fetch, and the HttpResponse helpers they use.         *)
(***************************************************************************)
EXTENDS Integers, Sequences, FiniteSets, TLC

VARIABLES
    store,     \* CacheManager contents: (METHOD, url) -> (response, policy)
    pc,        \* per client: position in the middleware's handle()
    mode,      \* per client: CacheMode of the HttpCache serving the request
    req,       \* per client: request parts handed to the engine
    act,       \* per client: what before_request returned
    stage,     \* per client: what before_conditional_fetch returned
    sent,      \* per client: headers of the request as sent to the network
    net,       \* per client: converted network response
    ret,       \* per client: what after_remote_fetch / after_conditional_fetch returned
    out,       \* per client: what handle() returned to the caller
    calls,     \* per client: manager calls made for the current request
    puts,      \* every (METHOD, url, body) a put has stored so far
    started    \* number of requests started so far

vars == <<store, pc, mode, req, act, stage, sent, net, ret, out, calls,
          puts, started>>

-----------------------------------------------------------------------------
(* Bounds *)

MaxRequests == 2

Clients == {"c1"}

-----------------------------------------------------------------------------
(* Data *)

Modes == {"Default", "NoStore", "Reload", "NoCache", "ForceCache",
          "OnlyIfCached"}

\* request methods as http::Method values; "get" is an extension method
Methods == {"GET", "HEAD", "POST", "get"}

\* request URIs as handed to the engine in request::Parts
Uris == {"http://x/y", "HTTP://X/y", "/y"}

NoUrl == "<invalid url>"

\* Url::parse(&request_parts.uri.to_string()): scheme and host are
\* lower-cased, a relative reference is rejected
UrlParse(uri) ==
    CASE uri = "http://x/y" -> "http://x/y"
      [] uri = "HTTP://X/y" -> "http://x/y"
      [] OTHER -> NoUrl

\* Url::host()
UrlHost(url) ==
    CASE url = "http://x/y" -> "x"
      [] url = "http://localhost" -> "localhost"
      [] OTHER -> "?"

\* String::to_uppercase on the method
ToUppercase(m) ==
    CASE m = "get" -> "GET"
      [] OTHER -> m

\* String::to_lowercase on a cache-control directive
ToLowercase(d) ==
    CASE d = "Must-Revalidate" -> "must-revalidate"
      [] OTHER -> d

XCACHE == "x-cache"
XCACHELOOKUP == "x-cache-lookup"

\* HitOrMiss as Display prints it
HIT == "HIT"
MISS == "MISS"

NoHeaders == [n \in {} |-> ""]

\* HashMap::insert
HeaderInsert(h, k, v) ==
    [n \in DOMAIN h \cup {k} |-> IF n = k THEN v ELSE h[n]]

\* HashMap::remove
HeaderRemove(h, k) == [n \in DOMAIN h \ {k} |-> h[n]]

\* HttpResponse::new
HttpResponse(body, headers, status, url) ==
    [body |-> body, headers |-> headers, status |-> status, url |-> url]

\* HttpResponse::cache_status
cache_status(r, hm) ==
    [r EXCEPT !.headers = HeaderInsert(r.headers, XCACHE, hm)]

\* HttpResponse::cache_lookup_status
cache_lookup_status(r, hm) ==
    [r EXCEPT !.headers = HeaderInsert(r.headers, XCACHELOOKUP, hm)]

\* impl Default for HttpResponse
DefaultResponse ==
    cache_lookup_status(
        cache_status(HttpResponse("", NoHeaders, 500, "http://localhost"),
                     MISS),
        MISS)


NoCode == -1

\* format!("{}", code) of a warn-code
CodeString(code) ==
    CASE code = 110 -> "110"
      [] code = 111 -> "111"
      [] code = 112 -> "112"
      [] code = 214 -> "214"
      [] OTHER -> "???"

\* chars().take(3).collect::<String>().parse().ok() of a warning value
ParseCode(s) ==
    CASE s = "110" -> 110
      [] s = "111" -> 111
      [] s = "112" -> 112
      [] s = "214" -> 214
      [] OTHER -> NoCode

\* httpdate::fmt_http_date(SystemTime::now())
HttpDateNow == "now"

\* the warning value "{code} {agent} {text:?} \"{date}\""
WarningValue(code, agent, text, date) ==
    [code |-> code, agent |-> agent, text |-> text, date |-> date]

\* HttpResponse::warning_code
warning_code(r) ==
    IF "warning" \in DOMAIN r.headers
    THEN ParseCode(r.headers["warning"].code)
    ELSE NoCode

\* HttpResponse::add_warning
add_warning(r, url, code, message) ==
    [r EXCEPT !.headers =
        HeaderInsert(r.headers, "warning",
                     WarningValue(CodeString(code), UrlHost(url), message,
                                  HttpDateNow))]

\* HttpResponse::remove_warning
remove_warning(r) ==
    [r EXCEPT !.headers = HeaderRemove(r.headers, "warning")]

\* must_revalidate comparing without to_lowercase
must_revalidate_case_sensitive(r) ==
    /\ "cache-control" \in DOMAIN r.headers
    /\ \E i \in DOMAIN r.headers["cache-control"] :
          r.headers["cache-control"][i] = "must-revalidate"

\* HttpResponse::must_revalidate; a cache-control value is its sequence of
\* directives
must_revalidate(r) ==
    /\ "cache-control" \in DOMAIN r.headers
    /\ \E i \in DOMAIN r.headers["cache-control"] :
          ToLowercase(r.headers["cache-control"][i]) = "must-revalidate"

\* StatusCode::from_u16 accepts 100..=999
StatusValid(status) == status >= 100 /\ status <= 999

\* StatusCode::is_server_error
is_server_error(status) == status >= 500 /\ status < 600

NoParts == [ok |-> FALSE]

\* HttpResponse::parts
parts(r) ==
    IF StatusValid(r.status)
    THEN [ok |-> TRUE, status |-> r.status, headers |-> r.headers]
    ELSE NoParts

\* inserting every header of p into h, as update_headers' loop does
MergeHeaders(h, p) ==
    [n \in DOMAIN h \cup DOMAIN p |-> IF n \in DOMAIN p THEN p[n] ELSE h[n]]

\* HttpResponse::update_headers
update_headers(r, p) ==
    [r EXCEPT !.headers = MergeHeaders(r.headers, p.headers)]

-----------------------------------------------------------------------------
(* The policy adapter: http_cache_semantics::CachePolicy, used through     *)
(* new, is_storable, before_request and after_response.                    *)

\* response headers a policy keeps
PolicyHeaders == {"cache-control", "date"}

RestrictHeaders(h) == [n \in DOMAIN h \cap PolicyHeaders |-> h[n]]

\* statuses the policy understands
UnderstoodStatuses == {200, 203, 204, 300, 301, 302, 303, 307, 308, 404,
                       405, 410, 414, 501}

\* CachePolicy::new / CachePolicy::new_options
CachePolicyNew(request_parts, response_parts) ==
    [method |-> request_parts.method,
     status |-> response_parts.status,
     headers |-> RestrictHeaders(response_parts.headers)]

\* CachePolicy::is_storable
is_storable(policy) ==
    /\ policy.method \in {"GET", "HEAD"}
    /\ policy.status \in UnderstoodStatuses
    /\ ~ ( /\ "cache-control" \in DOMAIN policy.headers
           /\ \E i \in DOMAIN policy.headers["cache-control"] :
                 ToLowercase(policy.headers["cache-control"][i]) = "no-store" )

\* CachePolicy::before_request: the verdict depends on the clock, so both
\* are possible; Fresh carries the response headers to serve (with age),
\* Stale the request parts with the validators added
PolicyBeforeRequest(policy, request_parts) ==
    { [tag |-> "Fresh",
       parts |-> [headers |-> HeaderInsert(policy.headers, "age", "1")]],
      [tag |-> "Stale",
       parts |-> [request_parts EXCEPT !.headers =
                    HeaderInsert(request_parts.headers, "if-modified-since",
                        IF "date" \in DOMAIN policy.headers
                        THEN policy.headers["date"] ELSE "d0")]] }

\* CachePolicy::after_response: NotModified keeps the policy and takes over
\* the headers of the 304, Modified starts a policy from the new response
PolicyAfterResponse(policy, request_parts, response_parts) ==
    { [tag |-> "NotModified",
       policy |-> [policy EXCEPT !.headers =
                      MergeHeaders(policy.headers,
                                   RestrictHeaders(response_parts.headers))],
       parts |-> [headers |->
                      MergeHeaders(policy.headers,
                                   RestrictHeaders(response_parts.headers))]],
      [tag |-> "Modified",
       policy |-> CachePolicyNew(request_parts, response_parts),
       parts |-> [headers |-> RestrictHeaders(response_parts.headers)]] }

-----------------------------------------------------------------------------
(* The cache store behind the CacheManager trait *)

NoEntry == [found |-> FALSE]

Key(method, url) == <<method, url>>

\* CacheManager::get
ManagerGet(s, method, url) ==
    IF Key(method, url) \in DOMAIN s
    THEN [found |-> TRUE,
          response |-> s[Key(method, url)].response,
          policy |-> s[Key(method, url)].policy]
    ELSE NoEntry

\* CacheManager::put
ManagerPut(s, method, url, res, policy) ==
    [k \in DOMAIN s \cup {Key(method, url)} |->
        IF k = Key(method, url)
        THEN [response |-> res, policy |-> policy]
        ELSE s[k]]

\* CacheManager::delete
ManagerDelete(s, method, url) ==
    [k \in DOMAIN s \ {Key(method, url)} |-> s[k]]

EmptyStore == [k \in {} |-> NoEntry]

\* entries of the manager's calls log
GetCall(method, url, ok) ==
    [op |-> "get", method |-> method, url |-> url, ok |-> ok]

PutCall(method, url, res, policy, ok) ==
    [op |-> "put", method |-> method, url |-> url, ok |-> ok,
     response |-> res, policy |-> policy]

DeleteCall(method, url, ok) ==
    [op |-> "delete", method |-> method, url |-> url, ok |-> ok]

\* what the puts among the calls cs stored: (METHOD, url, body)
PutBodies(cs) ==
    { <<cs[i].method, cs[i].url, cs[i].response.body>> :
        i \in { j \in DOMAIN cs : cs[j].op = "put" /\ cs[j].ok } }

-----------------------------------------------------------------------------
(* Network *)

Versions == {1, 2}

OriginBody(v) == IF v = 1 THEN "b1" ELSE "b2"

OriginDate(v) == IF v = 1 THEN "d1" ELSE "d2"

\* 99 is not a status StatusCode accepts: HttpResponse.status is any u16
OriginStatuses == {200, 304, 404, 503, 99}

NoCacheControl == <<>>

OriginCacheControls ==
    {NoCacheControl, <<"max-age=0", "Must-Revalidate">>, <<"no-store">>}

NoWarning == "-"

OriginWarnings == {NoWarning, "110", "214"}

\* cache-status values an origin or a CDN in front of it may send itself
OriginXCaches == {"HIT", "Hit from cloudfront"}

OriginHeaders(v, cc, w) ==
    LET h0 == HeaderInsert(NoHeaders, "date", OriginDate(v))
        h1 == IF cc = NoCacheControl THEN h0
              ELSE HeaderInsert(h0, "cache-control", cc)
    IN  IF w = NoWarning THEN h1
        ELSE HeaderInsert(h1, "warning",
                          WarningValue(w, "origin", "text", "then"))

OriginResponse(st, v, cc, w) ==
    [status |-> st, body |-> OriginBody(v), headers |-> OriginHeaders(v, cc, w)]

\* what the network may answer: a 200 of either version with any
\* cache-control, a 200 carrying a warning, a 304 of either version, and one
\* response of each other status, and a 404 that carries an x-cache header
\* of its own
OriginResponses ==
    { OriginResponse(200, v, cc, NoWarning) :
        v \in Versions, cc \in OriginCacheControls }
    \cup { OriginResponse(200, 1, cc, w) :
        cc \in OriginCacheControls \ {<<"no-store">>},
        w \in OriginWarnings \ {NoWarning} }
    \cup { OriginResponse(304, v, NoCacheControl, NoWarning) : v \in Versions }
    \cup { OriginResponse(st, 2, NoCacheControl, NoWarning) :
        st \in OriginStatuses \ {200, 304} }
    \cup { [OriginResponse(404, 1, NoCacheControl, NoWarning) EXCEPT
               !.headers = HeaderInsert(@, XCACHE, x)] :
            x \in OriginXCaches }

\* convert_from_reqwest_response
convert_from_reqwest_response(response, url) ==
    [DefaultResponse EXCEPT
        !.headers = MergeHeaders(DefaultResponse.headers, response.headers),
        !.url = url,
        !.status = response.status,
        !.body = response.body]

-----------------------------------------------------------------------------
(* Action / Fetch / Stage *)

ActionCached(response) == [tag |-> "Cached", response |-> response]

ActionRemote(fetch) == [tag |-> "Remote", fetch |-> fetch]

FetchNormal == [tag |-> "Normal"]

FetchForceNoCache == [tag |-> "ForceNoCache"]

FetchConditional(st) == [tag |-> "Conditional", stage |-> st]

StageBeforeFetch(response, policy) ==
    [tag |-> "BeforeFetch", response |-> response, policy |-> policy]

StageCached(response) == [tag |-> "Cached", response |-> response]

StageUpdateRequestHeaders(request_parts) ==
    [tag |-> "UpdateRequestHeaders", request_parts |-> request_parts]

None == [tag |-> "None"]

Ok(v) == [tag |-> "Ok", value |-> v]

Err == [tag |-> "Err"]

-----------------------------------------------------------------------------
(* HttpCache: the decision engine.  Each operation is given the store and  *)
(* whether the manager call it may make succeeds, and yields its return    *)
(* value, the store afterwards and the manager calls it made.              *)

\* HttpCache::build_policy
build_policy(request_parts, response) ==
    IF parts(response).ok
    THEN Ok(CachePolicyNew(request_parts, parts(response)))
    ELSE Err

\* is_cacheable of before_request: && binds tighter than ||
before_request_is_cacheable(m, method) ==
    \/ method = "GET"
    \/ /\ method = "HEAD"
       /\ m # "NoStore"
       /\ m # "Reload"

\* the warning purge taking the 2xx codes instead of the 1xx codes
purge_warning_2xx(response) ==
    IF warning_code(response) # NoCode
    THEN IF warning_code(response) >= 200 /\ warning_code(response) < 300
         THEN remove_warning(response)
         ELSE response
    ELSE response

\* the 1xx warning purge of before_request
purge_warning(response) ==
    IF warning_code(response) # NoCode
    THEN IF warning_code(response) >= 100 /\ warning_code(response) < 200
         THEN remove_warning(response)
         ELSE response
    ELSE response

\* before_request_hit with Default grouped into the arm that serves the entry
before_request_hit_default_cached(m, response, policy) ==
    CASE m = "NoCache" -> ActionRemote(FetchForceNoCache)
      [] m \in {"Default", "ForceCache", "OnlyIfCached"} ->
           ActionCached(
               cache_status(
                   add_warning(response, response.url, 112,
                               "Disconnected operation"),
                   HIT))
      [] OTHER -> ActionRemote(FetchNormal)

\* before_request_hit serving the entry without the 112 warning
before_request_hit_no_warning(m, response, policy) ==
    CASE m = "Default" ->
           ActionRemote(FetchConditional(StageBeforeFetch(response, policy)))
      [] m = "NoCache" -> ActionRemote(FetchForceNoCache)
      [] m \in {"ForceCache", "OnlyIfCached"} ->
           ActionCached(cache_status(response, HIT))
      [] OTHER -> ActionRemote(FetchNormal)

\* before_request_hit refetching in Default mode as NoCache does
before_request_hit_default_refetch(m, response, policy) ==
    CASE m \in {"Default", "NoCache"} -> ActionRemote(FetchForceNoCache)
      [] m \in {"ForceCache", "OnlyIfCached"} ->
           ActionCached(
               cache_status(
                   add_warning(response, response.url, 112,
                               "Disconnected operation"),
                   HIT))
      [] OTHER -> ActionRemote(FetchNormal)

\* the match on self.mode of before_request when the lookup hit
before_request_hit(m, response, policy) ==
    CASE m = "Default" ->
           ActionRemote(FetchConditional(StageBeforeFetch(response, policy)))
      [] m = "NoCache" -> ActionRemote(FetchForceNoCache)
      [] m \in {"ForceCache", "OnlyIfCached"} ->
           ActionCached(
               cache_status(
                   add_warning(response, response.url, 112,
                               "Disconnected operation"),
                   HIT))
      [] OTHER -> ActionRemote(FetchNormal)

\* before_request_miss answering 504 in ForceCache mode as well
before_request_miss_force_cache(m, url) ==
    CASE m \in {"ForceCache", "OnlyIfCached"} ->
           ActionCached([DefaultResponse EXCEPT
                            !.body = "GatewayTimeout",
                            !.status = 504,
                            !.url = url])
      [] OTHER -> ActionRemote(FetchNormal)

\* before_request_miss forcing the refetch in NoCache mode on a miss too
before_request_miss_no_cache_forced(m, url) ==
    CASE m = "OnlyIfCached" ->
           ActionCached([DefaultResponse EXCEPT
                            !.body = "GatewayTimeout",
                            !.status = 504,
                            !.url = url])
      [] m = "NoCache" -> ActionRemote(FetchForceNoCache)
      [] OTHER -> ActionRemote(FetchNormal)

\* the match on self.mode of before_request when the lookup missed
before_request_miss(m, url) ==
    CASE m = "OnlyIfCached" ->
           ActionCached([DefaultResponse EXCEPT
                            !.body = "GatewayTimeout",
                            !.status = 504,
                            !.url = url])
      [] OTHER -> ActionRemote(FetchNormal)

\* before_request going to the network when the lookup fails
before_request_fail_open(m, request_parts, s, mgrOk) ==
    LET method == ToUppercase(request_parts.method)
        url == UrlParse(request_parts.uri)
        got == ManagerGet(s, method, url)
    IN  IF ~before_request_is_cacheable(m, request_parts.method)
        THEN [ret |-> Ok(ActionRemote(FetchNormal)), calls |-> <<>>]
        ELSE IF url = NoUrl
        THEN [ret |-> Err, calls |-> <<>>]
        ELSE IF ~mgrOk
        THEN [ret |-> Ok(ActionRemote(FetchNormal)),
              calls |-> <<GetCall(method, url, FALSE)>>]
        ELSE IF got.found
        THEN [ret |-> Ok(before_request_hit(m,
                            purge_warning(
                                cache_lookup_status(got.response, HIT)),
                            got.policy)),
              calls |-> <<GetCall(method, url, TRUE)>>]
        ELSE [ret |-> Ok(before_request_miss(m, url)),
              calls |-> <<GetCall(method, url, TRUE)>>]

\* HttpCache::before_request
before_request(m, request_parts, s, mgrOk) ==
    LET method == ToUppercase(request_parts.method)
        url == UrlParse(request_parts.uri)
        got == ManagerGet(s, method, url)
    IN  IF ~before_request_is_cacheable(m, request_parts.method)
        THEN [ret |-> Ok(ActionRemote(FetchNormal)), calls |-> <<>>]
        ELSE IF url = NoUrl
        THEN [ret |-> Err, calls |-> <<>>]
        ELSE IF ~mgrOk
        THEN [ret |-> Err, calls |-> <<GetCall(method, url, FALSE)>>]
        ELSE IF got.found
        THEN [ret |-> Ok(before_request_hit(m,
                            purge_warning(
                                cache_lookup_status(got.response, HIT)),
                            got.policy)),
              calls |-> <<GetCall(method, url, TRUE)>>]
        ELSE [ret |-> Ok(before_request_miss(m, url)),
              calls |-> <<GetCall(method, url, TRUE)>>]

\* is_get_head of after_remote_fetch
is_get_head(method) == method = "GET" \/ method = "HEAD"

\* is_cacheable of after_remote_fetch without the status check
after_remote_fetch_is_cacheable_any_status(m, method, status, policy) ==
    /\ is_get_head(method)
    /\ m # "NoStore"
    /\ m # "Reload"
    /\ is_storable(policy)

\* is_cacheable of after_remote_fetch letting Reload write
after_remote_fetch_is_cacheable_reload_writes(m, method, status, policy) ==
    /\ is_get_head(method)
    /\ m # "NoStore"
    /\ status = 200
    /\ is_storable(policy)

\* is_cacheable of after_remote_fetch leaving NoCache out of the writing modes
after_remote_fetch_is_cacheable_no_cache_skips(m, method, status, policy) ==
    /\ is_get_head(method)
    /\ m # "NoStore"
    /\ m # "Reload"
    /\ m # "NoCache"
    /\ status = 200
    /\ is_storable(policy)

\* is_cacheable of after_remote_fetch leaving ForceCache out of the writing modes
after_remote_fetch_is_cacheable_force_cache_skips(m, method, status, policy) ==
    /\ is_get_head(method)
    /\ m \notin {"NoStore", "Reload", "ForceCache"}
    /\ status = 200
    /\ is_storable(policy)

\* is_cacheable of after_remote_fetch
after_remote_fetch_is_cacheable(m, method, status, policy) ==
    /\ is_get_head(method)
    /\ m # "NoStore"
    /\ m # "Reload"
    /\ status = 200
    /\ is_storable(policy)

\* the delete with its error propagated by ? instead of dropped by .ok()
after_remote_fetch_delete_propagating(url, s, mgrOk) ==
    [ret |-> IF mgrOk THEN Ok("()") ELSE Err,
     store |-> IF mgrOk THEN ManagerDelete(s, "GET", url) ELSE s,
     calls |-> <<DeleteCall("GET", url, mgrOk)>>]

\* the invalidation removing the HEAD entry as well as the GET entry
after_remote_fetch_delete_get_and_head(url, s, mgrOk) ==
    [ret |-> Ok("()"),
     store |-> IF mgrOk
               THEN ManagerDelete(ManagerDelete(s, "GET", url), "HEAD", url)
               ELSE s,
     calls |-> <<DeleteCall("GET", url, mgrOk), DeleteCall("HEAD", url, mgrOk)>>]

\* the invalidation clearing the whole store
after_remote_fetch_delete_clearing(url, s, mgrOk) ==
    [ret |-> Ok("()"),
     store |-> IF mgrOk THEN EmptyStore ELSE s,
     calls |-> <<DeleteCall("GET", url, mgrOk)>>]

\* self.manager.delete("GET", &url).await.ok() of after_remote_fetch
after_remote_fetch_delete(url, s, mgrOk) ==
    [ret |-> Ok("()"),
     store |-> IF mgrOk THEN ManagerDelete(s, "GET", url) ELSE s,
     calls |-> <<DeleteCall("GET", url, mgrOk)>>]

\* after_remote_fetch dropping an entry already at the key instead of
\* replacing it
after_remote_fetch_invalidating(m, response, request_parts, s, mgrOk) ==
    LET built == build_policy(request_parts, response)
        url == UrlParse(request_parts.uri)
        method == ToUppercase(request_parts.method)
    IN  IF built = Err
        THEN [ret |-> Err, store |-> s, calls |-> <<>>]
        ELSE IF url = NoUrl
        THEN [ret |-> Err, store |-> s, calls |-> <<>>]
        ELSE IF after_remote_fetch_is_cacheable(m, request_parts.method,
                                                response.status, built.value)
        THEN IF mgrOk
             THEN [ret |-> Ok("()"),
                   store |-> IF Key(method, url) \in DOMAIN s
                             THEN ManagerDelete(s, method, url)
                             ELSE ManagerPut(s, method, url, response,
                                             built.value),
                   calls |-> <<PutCall(method, url, response, built.value,
                                       TRUE)>>]
             ELSE [ret |-> Err, store |-> s,
                   calls |-> <<PutCall(method, url, response, built.value,
                                       FALSE)>>]
        ELSE IF ~is_get_head(request_parts.method)
        THEN after_remote_fetch_delete(url, s, mgrOk)
        ELSE [ret |-> Ok("()"), store |-> s, calls |-> <<>>]

\* after_remote_fetch invalidating after every outcome it does not store,
\* whatever the method
after_remote_fetch_evicting(m, response, request_parts, s, mgrOk) ==
    LET built == build_policy(request_parts, response)
        url == UrlParse(request_parts.uri)
        method == ToUppercase(request_parts.method)
    IN  IF built = Err
        THEN [ret |-> Err, store |-> s, calls |-> <<>>]
        ELSE IF url = NoUrl
        THEN [ret |-> Err, store |-> s, calls |-> <<>>]
        ELSE IF after_remote_fetch_is_cacheable(m, request_parts.method,
                                                response.status, built.value)
        THEN IF mgrOk
             THEN [ret |-> Ok("()"),
                   store |-> ManagerPut(s, method, url, response, built.value),
                   calls |-> <<PutCall(method, url, response, built.value,
                                       TRUE)>>]
             ELSE [ret |-> Err, store |-> s,
                   calls |-> <<PutCall(method, url, response, built.value,
                                       FALSE)>>]
        ELSE after_remote_fetch_delete(url, s, mgrOk)

\* after_remote_fetch invalidating for a mutating method before it builds
\* the policy
after_remote_fetch_delete_first(m, response, request_parts, s, mgrOk) ==
    LET built == build_policy(request_parts, response)
        url == UrlParse(request_parts.uri)
        method == ToUppercase(request_parts.method)
    IN  IF built = Err
        THEN IF ~is_get_head(request_parts.method) /\ url # NoUrl
             THEN [ret |-> Err,
                   store |-> after_remote_fetch_delete(url, s, mgrOk).store,
                   calls |-> after_remote_fetch_delete(url, s, mgrOk).calls]
             ELSE [ret |-> Err, store |-> s, calls |-> <<>>]
        ELSE IF url = NoUrl
        THEN [ret |-> Err, store |-> s, calls |-> <<>>]
        ELSE IF after_remote_fetch_is_cacheable(m, request_parts.method,
                                                response.status, built.value)
        THEN IF mgrOk
             THEN [ret |-> Ok("()"),
                   store |-> ManagerPut(s, method, url, response, built.value),
                   calls |-> <<PutCall(method, url, response, built.value,
                                       TRUE)>>]
             ELSE [ret |-> Err, store |-> s,
                   calls |-> <<PutCall(method, url, response, built.value,
                                       FALSE)>>]
        ELSE IF ~is_get_head(request_parts.method)
        THEN after_remote_fetch_delete(url, s, mgrOk)
        ELSE [ret |-> Ok("()"), store |-> s, calls |-> <<>>]

\* HttpCache::after_remote_fetch
after_remote_fetch(m, response, request_parts, s, mgrOk) ==
    LET built == build_policy(request_parts, response)
        url == UrlParse(request_parts.uri)
        method == ToUppercase(request_parts.method)
    IN  IF built = Err
        THEN [ret |-> Err, store |-> s, calls |-> <<>>]
        ELSE IF url = NoUrl
        THEN [ret |-> Err, store |-> s, calls |-> <<>>]
        ELSE IF after_remote_fetch_is_cacheable(m, request_parts.method,
                                                response.status, built.value)
        THEN IF mgrOk
             THEN [ret |-> Ok("()"),
                   store |-> ManagerPut(s, method, url, response, built.value),
                   calls |-> <<PutCall(method, url, response, built.value,
                                       TRUE)>>]
             ELSE [ret |-> Err, store |-> s,
                   calls |-> <<PutCall(method, url, response, built.value,
                                       FALSE)>>]
        ELSE IF ~is_get_head(request_parts.method)
        THEN after_remote_fetch_delete(url, s, mgrOk)
        ELSE [ret |-> Ok("()"), store |-> s, calls |-> <<>>]

\* before_conditional_fetch without cache_status(HIT) in the Fresh arm
before_conditional_fetch_no_cache_status(cached_response, before_req) ==
    IF before_req.tag = "Fresh"
    THEN Ok(StageCached(
                cache_lookup_status(
                    update_headers(cached_response, before_req.parts),
                    HIT)))
    ELSE Ok(StageUpdateRequestHeaders(before_req.parts))

\* before_conditional_fetch handing the stage it was given back when the
\* response is stale
before_conditional_fetch_hands_back(cached_response, before_req) ==
    IF before_req.tag = "Fresh"
    THEN Ok(StageCached(
                cache_lookup_status(
                    cache_status(
                        update_headers(cached_response, before_req.parts),
                        HIT),
                    HIT)))
    ELSE Ok(StageBeforeFetch(cached_response, None))

\* HttpCache::before_conditional_fetch, for one verdict of the policy
before_conditional_fetch(cached_response, before_req) ==
    IF before_req.tag = "Fresh"
    THEN Ok(StageCached(
                cache_lookup_status(
                    cache_status(
                        update_headers(cached_response, before_req.parts),
                        HIT),
                    HIT)))
    ELSE Ok(StageUpdateRequestHeaders(before_req.parts))

\* the 304 arm putting the cached response as it was before the update
after_conditional_fetch_304_stale_put(cached_response, after_res, method, url, s, mgrOk) ==
    LET updated == cache_status(
                       update_headers(cached_response, after_res.parts), HIT)
    IN  IF mgrOk
        THEN [ret |-> Ok(updated),
              store |-> ManagerPut(s, method, url, cached_response,
                                   after_res.policy),
              calls |-> <<PutCall(method, url, cached_response,
                                  after_res.policy, TRUE)>>]
        ELSE [ret |-> Err, store |-> s,
              calls |-> <<PutCall(method, url, cached_response,
                                  after_res.policy, FALSE)>>]

\* the 304 arm updating the response the store holds at the time of the put
\* instead of the one handed in
after_conditional_fetch_304_store_reread(cached_response, after_res, method, url, s, mgrOk) ==
    LET current == IF Key(method, url) \in DOMAIN s
                   THEN cache_lookup_status(s[Key(method, url)].response, HIT)
                   ELSE cached_response
        updated == cache_status(
                       update_headers(current, after_res.parts), HIT)
    IN  IF mgrOk
        THEN [ret |-> Ok(updated),
              store |-> ManagerPut(s, method, url, updated, after_res.policy),
              calls |-> <<PutCall(method, url, updated, after_res.policy,
                                  TRUE)>>]
        ELSE [ret |-> Err, store |-> s,
              calls |-> <<PutCall(method, url, updated, after_res.policy,
                                  FALSE)>>]

\* the 304 arm refreshing the entry only where the store still holds one
after_conditional_fetch_304_only_if_present(cached_response, after_res, method, url, s, mgrOk) ==
    LET updated == cache_status(
                       update_headers(cached_response, after_res.parts), HIT)
    IN  IF Key(method, url) \notin DOMAIN s
        THEN [ret |-> Ok(updated), store |-> s, calls |-> <<>>]
        ELSE IF mgrOk
        THEN [ret |-> Ok(updated),
              store |-> ManagerPut(s, method, url, updated, after_res.policy),
              calls |-> <<PutCall(method, url, updated, after_res.policy,
                                  TRUE)>>]
        ELSE [ret |-> Err, store |-> s,
              calls |-> <<PutCall(method, url, updated, after_res.policy,
                                  FALSE)>>]

\* the 304 arm of after_conditional_fetch, for one outcome of the policy
after_conditional_fetch_304(cached_response, after_res, method, url, s, mgrOk) ==
    LET updated == cache_status(
                       update_headers(cached_response, after_res.parts), HIT)
    IN  IF mgrOk
        THEN [ret |-> Ok(updated),
              store |-> ManagerPut(s, method, url, updated, after_res.policy),
              calls |-> <<PutCall(method, url, updated, after_res.policy,
                                  TRUE)>>]
        ELSE [ret |-> Err, store |-> s,
              calls |-> <<PutCall(method, url, updated, after_res.policy,
                                  FALSE)>>]

\* the 200 arm marking the fresh response x-cache = HIT
after_conditional_fetch_200_marked_hit(request_parts, conditional_response, method, url, s, mgrOk) ==
    LET built == build_policy(request_parts, conditional_response)
        fresh == cache_status(conditional_response, HIT)
    IN  IF built = Err
        THEN [ret |-> Err, store |-> s, calls |-> <<>>]
        ELSE IF mgrOk
        THEN [ret |-> Ok(fresh),
              store |-> ManagerPut(s, method, url, fresh, built.value),
              calls |-> <<PutCall(method, url, fresh, built.value, TRUE)>>]
        ELSE [ret |-> Err, store |-> s,
              calls |-> <<PutCall(method, url, fresh, built.value, FALSE)>>]

\* the 200 arm dropping the error of its put
after_conditional_fetch_200_put_swallowed(request_parts, conditional_response, method, url, s, mgrOk) ==
    LET built == build_policy(request_parts, conditional_response)
        fresh == cache_status(conditional_response, MISS)
    IN  IF built = Err
        THEN [ret |-> Err, store |-> s, calls |-> <<>>]
        ELSE [ret |-> Ok(fresh),
              store |-> IF mgrOk
                        THEN ManagerPut(s, method, url, fresh, built.value)
                        ELSE s,
              calls |-> <<PutCall(method, url, fresh, built.value, mgrOk)>>]

\* the 200 arm removing the old entry before it puts the new one
after_conditional_fetch_200_delete_then_put(request_parts, conditional_response, method, url, s, mgrOk) ==
    LET built == build_policy(request_parts, conditional_response)
        fresh == cache_status(conditional_response, MISS)
    IN  IF built = Err
        THEN [ret |-> Err, store |-> s, calls |-> <<>>]
        ELSE IF mgrOk
        THEN [ret |-> Ok(fresh),
              store |-> ManagerPut(s, method, url, fresh, built.value),
              calls |-> <<DeleteCall(method, url, TRUE),
                          PutCall(method, url, fresh, built.value, TRUE)>>]
        ELSE [ret |-> Err, store |-> s,
              calls |-> <<DeleteCall(method, url, FALSE)>>]

\* the 200 arm of after_conditional_fetch
after_conditional_fetch_200(request_parts, conditional_response, method, url, s, mgrOk) ==
    LET built == build_policy(request_parts, conditional_response)
        fresh == cache_status(conditional_response, MISS)
    IN  IF built = Err
        THEN [ret |-> Err, store |-> s, calls |-> <<>>]
        ELSE IF mgrOk
        THEN [ret |-> Ok(fresh),
              store |-> ManagerPut(s, method, url, fresh, built.value),
              calls |-> <<PutCall(method, url, fresh, built.value, TRUE)>>]
        ELSE [ret |-> Err, store |-> s,
              calls |-> <<PutCall(method, url, fresh, built.value, FALSE)>>]

\* the last arm handing back the network response instead of the cached one
after_conditional_fetch_other_network(cached_response, conditional_response, s) ==
    [ret |-> Ok(cache_status(conditional_response, HIT)),
     store |-> s, calls |-> <<>>]

\* the last arm adding the 111 warning of the 5xx arm
after_conditional_fetch_other_warned(cached_response, conditional_response, s) ==
    [ret |-> Ok(cache_status(
                    add_warning(cached_response, cached_response.url, 111,
                                "Revalidation failed"),
                    HIT)),
     store |-> s, calls |-> <<>>]

\* the last arm of after_conditional_fetch: any other status
after_conditional_fetch_other(cached_response, conditional_response, s) ==
    [ret |-> Ok(cache_status(cached_response, HIT)),
     store |-> s, calls |-> <<>>]

\* HttpCache::after_conditional_fetch; notModified chooses the arm of
\* AfterResponse the policy answers with
after_conditional_fetch(request_parts, cached_response0, conditional_response0, policy, s, mgrOk, notModified) ==
    LET cached_response == cache_lookup_status(cached_response0, HIT)
        conditional_response == cache_lookup_status(conditional_response0, HIT)
        url == UrlParse(request_parts.uri)
        method == ToUppercase(request_parts.method)
        status == conditional_response.status
    IN  IF url = NoUrl
        THEN [ret |-> Err, store |-> s, calls |-> <<>>]
        ELSE IF ~StatusValid(status)
        THEN [ret |-> Err, store |-> s, calls |-> <<>>]
        ELSE IF is_server_error(status) /\ must_revalidate(cached_response)
        THEN [ret |-> Ok(cache_status(
                            add_warning(cached_response, url, 111,
                                        "Revalidation failed"),
                            HIT)),
              store |-> s, calls |-> <<>>]
        ELSE IF status = 304
        THEN after_conditional_fetch_304(
                 cached_response,
                 CHOOSE a \in PolicyAfterResponse(policy, request_parts,
                                                  parts(conditional_response)) :
                     (a.tag = "NotModified") = notModified,
                 method, url, s, mgrOk)
        ELSE IF status = 200
        THEN after_conditional_fetch_200(request_parts, conditional_response,
                                         method, url, s, mgrOk)
        ELSE after_conditional_fetch_other(cached_response,
                                           conditional_response, s)

-----------------------------------------------------------------------------
(* The middleware: Middleware::handle of http-cache-reqwest *)

Init ==
    /\ store = EmptyStore
    /\ pc = [c \in Clients |-> "idle"]
    /\ mode = [c \in Clients |-> "Default"]
    /\ req = [c \in Clients |-> None]
    /\ act = [c \in Clients |-> None]
    /\ stage = [c \in Clients |-> None]
    /\ sent = [c \in Clients |-> None]
    /\ net = [c \in Clients |-> None]
    /\ ret = [c \in Clients |-> None]
    /\ out = [c \in Clients |-> None]
    /\ calls = [c \in Clients |-> <<>>]
    /\ puts = {}
    /\ started = 0

\* a request enters handle() of a middleware whose HttpCache has mode m
Start(c) ==
    /\ pc[c] \in {"idle", "done"}
    /\ started < MaxRequests
    /\ \E m \in Modes, method \in Methods, uri \in Uris :
          /\ mode' = [mode EXCEPT ![c] = m]
          /\ req' = [req EXCEPT ![c] =
                        [method |-> method, uri |-> uri, headers |-> NoHeaders]]
    /\ pc' = [pc EXCEPT ![c] = "before_request"]
    /\ act' = [act EXCEPT ![c] = None]
    /\ stage' = [stage EXCEPT ![c] = None]
    /\ sent' = [sent EXCEPT ![c] = None]
    /\ net' = [net EXCEPT ![c] = None]
    /\ ret' = [ret EXCEPT ![c] = None]
    /\ out' = [out EXCEPT ![c] = None]
    /\ calls' = [calls EXCEPT ![c] = <<>>]
    /\ started' = started + 1
    /\ UNCHANGED <<store, puts>>

\* where handle() goes after before_request returned r
AfterBeforeRequest(r) ==
    IF r.tag = "Err" THEN "done"
    ELSE IF r.value.tag = "Cached" THEN "done"
    ELSE IF r.value.fetch.tag = "Normal" THEN "fetch_normal"
    ELSE IF r.value.fetch.tag = "ForceNoCache" THEN "fetch_force_no_cache"
    ELSE IF r.value.fetch.stage.tag = "BeforeFetch"
    THEN "before_conditional_fetch"
    ELSE "unreachable"

\* before_request marking the stored entry itself instead of its own copy
BeforeRequest_marking_entry(c) ==
    /\ pc[c] = "before_request"
    /\ \E mgrOk \in BOOLEAN :
          LET r == before_request(mode[c], req[c], store, mgrOk)
              hit == /\ r.ret.tag # "Err"
                     /\ r.calls # <<>>
                     /\ Key(r.calls[1].method, r.calls[1].url) \in DOMAIN store
          IN  /\ act' = [act EXCEPT ![c] = r.ret]
              /\ calls' = [calls EXCEPT ![c] = calls[c] \o r.calls]
              /\ pc' = [pc EXCEPT ![c] = AfterBeforeRequest(r.ret)]
              /\ out' = [out EXCEPT ![c] =
                            IF r.ret.tag = "Err" THEN Err
                            ELSE IF r.ret.value.tag = "Cached"
                            THEN Ok(r.ret.value.response)
                            ELSE None]
              /\ store' = IF hit
                          THEN [store EXCEPT
                                   ![Key(r.calls[1].method, r.calls[1].url)].response =
                                       IF r.ret.value.tag = "Cached"
                                       THEN r.ret.value.response
                                       ELSE IF r.ret.value.fetch.tag = "Conditional"
                                       THEN r.ret.value.fetch.stage.response
                                       ELSE cache_lookup_status(
                                                store[Key(r.calls[1].method,
                                                          r.calls[1].url)].response,
                                                HIT)]
                          ELSE store
    /\ UNCHANGED <<mode, req, stage, sent, net, ret, puts, started>>

\* self.0.before_request(&request_parts).await and the match on its result
BeforeRequest(c) ==
    /\ pc[c] = "before_request"
    /\ \E mgrOk \in BOOLEAN :
          LET r == before_request(mode[c], req[c], store, mgrOk)
          IN  /\ act' = [act EXCEPT ![c] = r.ret]
              /\ calls' = [calls EXCEPT ![c] = calls[c] \o r.calls]
              /\ pc' = [pc EXCEPT ![c] = AfterBeforeRequest(r.ret)]
              /\ out' = [out EXCEPT ![c] =
                            IF r.ret.tag = "Err" THEN Err
                            ELSE IF r.ret.value.tag = "Cached"
                            THEN Ok(r.ret.value.response)
                            ELSE None]
    /\ UNCHANGED <<store, mode, req, stage, sent, net, ret, puts, started>>

\* self.0.before_conditional_fetch(...) and the match on the stage
BeforeConditionalFetch(c) ==
    /\ pc[c] = "before_conditional_fetch"
    /\ \E before_req \in PolicyBeforeRequest(act[c].value.fetch.stage.policy,
                                             req[c]) :
          LET r == before_conditional_fetch(
                       act[c].value.fetch.stage.response, before_req)
          IN  /\ stage' = [stage EXCEPT ![c] = r]
              /\ pc' = [pc EXCEPT ![c] =
                           IF r.value.tag = "Cached" THEN "done"
                           ELSE IF r.value.tag = "UpdateRequestHeaders"
                           THEN "fetch_conditional"
                           ELSE "unreachable"]
              /\ out' = [out EXCEPT ![c] =
                            IF r.value.tag = "Cached"
                            THEN Ok(r.value.response)
                            ELSE None]
    /\ UNCHANGED <<store, mode, req, act, sent, net, ret, calls, puts,
                   started>>

\* the request handed to next.run without the forced cache-control
OutgoingHeaders_unforced(c) ==
    CASE pc[c] = "fetch_conditional" ->
           MergeHeaders(req[c].headers, stage[c].value.request_parts.headers)
      [] OTHER -> req[c].headers

\* headers of the request handed to next.run
OutgoingHeaders(c) ==
    CASE pc[c] = "fetch_force_no_cache" ->
           HeaderInsert(req[c].headers, "cache-control", <<"no-cache">>)
      [] pc[c] = "fetch_conditional" ->
           MergeHeaders(req[c].headers, stage[c].value.request_parts.headers)
      [] OTHER -> req[c].headers

\* next.run sent again when the origin answers with a server error
Fetch_retrying(c) ==
    /\ pc[c] \in {"fetch_normal", "fetch_force_no_cache", "fetch_conditional"}
    /\ sent' = [sent EXCEPT ![c] = Ok(OutgoingHeaders(c))]
    /\ \E o \in OriginResponses :
          /\ net' = [net EXCEPT ![c] =
                        convert_from_reqwest_response(o, UrlParse(req[c].uri))]
          /\ pc' = [pc EXCEPT ![c] =
                       IF is_server_error(o.status)
                       THEN pc[c]
                       ELSE IF pc[c] = "fetch_conditional"
                       THEN "after_conditional_fetch"
                       ELSE IF pc[c] = "fetch_force_no_cache"
                       THEN "after_remote_fetch_force_no_cache"
                       ELSE "after_remote_fetch"]
    /\ UNCHANGED <<store, mode, req, act, stage, ret, out, calls, puts,
                   started>>

\* next.run(req, extensions).await and convert_from_reqwest_response
Fetch(c) ==
    /\ pc[c] \in {"fetch_normal", "fetch_force_no_cache", "fetch_conditional"}
    /\ sent' = [sent EXCEPT ![c] = Ok(OutgoingHeaders(c))]
    /\ \E o \in OriginResponses :
          net' = [net EXCEPT ![c] =
                     convert_from_reqwest_response(o, UrlParse(req[c].uri))]
    /\ pc' = [pc EXCEPT ![c] =
                 IF pc[c] = "fetch_conditional"
                 THEN "after_conditional_fetch"
                 ELSE IF pc[c] = "fetch_force_no_cache"
                 THEN "after_remote_fetch_force_no_cache"
                 ELSE "after_remote_fetch"]
    /\ UNCHANGED <<store, mode, req, act, stage, ret, out, calls, puts,
                   started>>

\* next.run fails, or the response cannot be converted
FetchFails(c) ==
    /\ pc[c] \in {"fetch_normal", "fetch_force_no_cache", "fetch_conditional"}
    /\ sent' = [sent EXCEPT ![c] = Ok(OutgoingHeaders(c))]
    /\ out' = [out EXCEPT ![c] = Err]
    /\ pc' = [pc EXCEPT ![c] = "done"]
    /\ UNCHANGED <<store, mode, req, act, stage, net, ret, calls, puts,
                   started>>

\* self.0.after_remote_fetch(&mut response, &request_parts).await in the
\* Fetch::Normal and Fetch::ForceNoCache arms
AfterRemoteFetch(c) ==
    /\ pc[c] \in {"after_remote_fetch", "after_remote_fetch_force_no_cache"}
    /\ \E mgrOk \in BOOLEAN :
          LET r == after_remote_fetch(mode[c], net[c], req[c], store, mgrOk)
          IN  /\ ret' = [ret EXCEPT ![c] = r.ret]
              /\ store' = r.store
              /\ calls' = [calls EXCEPT ![c] = calls[c] \o r.calls]
              /\ puts' = puts \cup PutBodies(r.calls)
              /\ out' = [out EXCEPT ![c] =
                            IF r.ret.tag = "Err" THEN Err
                            ELSE IF pc[c] = "after_remote_fetch_force_no_cache"
                            THEN Ok(cache_lookup_status(net[c], HIT))
                            ELSE Ok(net[c])]
    /\ pc' = [pc EXCEPT ![c] = "done"]
    /\ UNCHANGED <<mode, req, act, stage, sent, net, started>>

\* self.0.after_conditional_fetch(...).await in the UpdateRequestHeaders arm
AfterConditionalFetch(c) ==
    /\ pc[c] = "after_conditional_fetch"
    /\ \E mgrOk \in BOOLEAN, notModified \in BOOLEAN :
          LET r == after_conditional_fetch(
                       stage[c].value.request_parts,
                       act[c].value.fetch.stage.response,
                       net[c],
                       act[c].value.fetch.stage.policy,
                       store, mgrOk, notModified)
          IN  /\ ret' = [ret EXCEPT ![c] = r.ret]
              /\ store' = r.store
              /\ calls' = [calls EXCEPT ![c] = calls[c] \o r.calls]
              /\ puts' = puts \cup PutBodies(r.calls)
              /\ out' = [out EXCEPT ![c] =
                            IF r.ret.tag = "Err" THEN Err
                            ELSE Ok(r.ret.value)]
    /\ pc' = [pc EXCEPT ![c] = "done"]
    /\ UNCHANGED <<mode, req, act, stage, sent, net, started>>

Next ==
    \E c \in Clients :
        \/ Start(c)
        \/ BeforeRequest(c)
        \/ BeforeConditionalFetch(c)
        \/ Fetch(c)
        \/ FetchFails(c)
        \/ AfterRemoteFetch(c)
        \/ AfterConditionalFetch(c)

Spec == Init /\ [][Next]_vars

-----------------------------------------------------------------------------
(* Steps of the engine, as seen on two successive states *)

BeforeRequestStep(c) == pc[c] = "before_request" /\ pc'[c] # pc[c]

BeforeConditionalFetchStep(c) ==
    pc[c] = "before_conditional_fetch" /\ pc'[c] # pc[c]

AfterRemoteFetchStep(c) ==
    /\ pc[c] \in {"after_remote_fetch", "after_remote_fetch_force_no_cache"}
    /\ pc'[c] # pc[c]

AfterConditionalFetchStep(c) ==
    pc[c] = "after_conditional_fetch" /\ pc'[c] # pc[c]

\* the request of c names a URL
UrlValid(c) == UrlParse(req[c].uri) # NoUrl

\* the manager calls c made in this step
NewCalls(c) == SubSeq(calls'[c], Len(calls[c]) + 1, Len(calls'[c]))

HasCall(cs, op) == \E i \in DOMAIN cs : cs[i].op = op

-----------------------------------------------------------------------------
(* Claims *)

\* C1: before_request performs a store lookup (manager.get) if and only if
\* the method is GET or HEAD and the mode is neither NoStore nor Reload; in
\* every other case it returns Remote(Normal) without calling manager.get.
\* Stated for requests whose URI is an absolute URL.
C1_LookupIffCacheable ==
    [][\A c \in Clients :
          (BeforeRequestStep(c) /\ UrlValid(c)) =>
              LET cacheable == /\ req[c].method \in {"GET", "HEAD"}
                               /\ mode[c] \notin {"NoStore", "Reload"}
              IN  /\ HasCall(NewCalls(c), "get") <=> cacheable
                  /\ ~cacheable =>
                        /\ act'[c] = Ok(ActionRemote(FetchNormal))
                        /\ NewCalls(c) = <<>>]_vars

\* C2: with mode NoStore the engine never calls manager.get, manager.put or
\* manager.delete, for any method and any network response.
C2_NoStoreNeverCallsManager ==
    \A c \in Clients : mode[c] = "NoStore" => calls[c] = <<>>

\* the key the engine uses for the request of c
ReqMethod(c) == ToUppercase(req[c].method)

ReqUrl(c) == UrlParse(req[c].uri)

ReqKey(c) == Key(ReqMethod(c), ReqUrl(c))

C5_DefaultHitBeforeFetch ==
    [][\A c \in Clients :
          (/\ BeforeRequestStep(c)
           /\ mode[c] = "Default"
           /\ req[c].method \in {"GET", "HEAD"}
           /\ UrlValid(c)
           /\ ReqKey(c) \in DOMAIN store
           /\ act'[c] # Err) =>
              /\ act'[c].value.tag = "Remote"
              /\ act'[c].value.fetch.tag = "Conditional"
              /\ act'[c].value.fetch.stage.tag = "BeforeFetch"
              /\ LET given == act'[c].value.fetch.stage.response
                     stored == store[ReqKey(c)].response
                 IN  /\ given.body = stored.body
                     /\ given.status = stored.status
                     /\ given.url = stored.url
                     /\ given.headers[XCACHELOOKUP] = "HIT"
                     /\ \A n \in DOMAIN stored.headers \ {XCACHELOOKUP, "warning"} :
                           /\ n \in DOMAIN given.headers
                           /\ given.headers[n] = stored.headers[n]
                     /\ DOMAIN given.headers \subseteq DOMAIN stored.headers
              /\ act'[c].value.fetch.stage.policy = store[ReqKey(c)].policy
              /\ store' = store
              /\ sent'[c] = None
              /\ out'[c] = None
              /\ pc'[c] = "before_conditional_fetch"
              /\ NewCalls(c) = <<GetCall(ReqMethod(c), ReqUrl(c), TRUE)>>]_vars

\* a Default-mode lookup hit and handed back BeforeFetch
C5_Witness ==
    \E c \in Clients :
        /\ pc[c] = "before_conditional_fetch"
        /\ mode[c] = "Default"
        /\ ReqKey(c) \in DOMAIN store
        /\ act[c].value.fetch.stage.response.body = store[ReqKey(c)].response.body
        /\ act[c].value.fetch.stage.response.headers[XCACHELOOKUP] = "HIT"

\* what the adapter passes to the two conditional operations
HeldResponse(c) == act[c].value.fetch.stage.response

HeldPolicy(c) == act[c].value.fetch.stage.policy

\* C6: before_conditional_fetch returns Stage::Cached (the policy's headers
\* merged into the cached response, x-cache and x-cache-lookup both HIT)
\* exactly when the policy's before_request verdict is Fresh, and
\* Stage::UpdateRequestHeaders carrying the policy's request parts exactly
\* when the verdict is Stale; it never performs a store operation.
C6_FreshCachedStaleUpdate ==
    [][\A c \in Clients :
          BeforeConditionalFetchStep(c) =>
              /\ \E v \in PolicyBeforeRequest(HeldPolicy(c), req[c]) :
                    stage'[c] = before_conditional_fetch(HeldResponse(c), v)
              /\ \A v \in PolicyBeforeRequest(HeldPolicy(c), req[c]) :
                    LET st == before_conditional_fetch(HeldResponse(c), v).value
                    IN  /\ (st.tag = "Cached") <=> (v.tag = "Fresh")
                        /\ (st.tag = "UpdateRequestHeaders") <=> (v.tag = "Stale")
                        /\ v.tag = "Stale" => st.request_parts = v.parts
                        /\ v.tag = "Fresh" =>
                              /\ st.response.body = HeldResponse(c).body
                              /\ st.response.status = HeldResponse(c).status
                              /\ st.response.headers[XCACHE] = "HIT"
                              /\ st.response.headers[XCACHELOOKUP] = "HIT"
                              /\ \A n \in DOMAIN v.parts.headers \ {XCACHE, XCACHELOOKUP} :
                                    st.response.headers[n] = v.parts.headers[n]
                              /\ \A n \in DOMAIN HeldResponse(c).headers
                                            \ (DOMAIN v.parts.headers
                                               \cup {XCACHE, XCACHELOOKUP}) :
                                    st.response.headers[n] = HeldResponse(c).headers[n]
              /\ store' = store
              /\ NewCalls(c) = <<>>]_vars

\* a fresh entry was served from the cache with the policy's age header
C6_Witness ==
    \E c \in Clients :
        /\ pc[c] = "done"
        /\ stage[c] # None
        /\ stage[c].value.tag = "Cached"
        /\ out[c] = Ok(stage[c].value.response)
        /\ out[c].value.headers[XCACHE] = "HIT"
        /\ "age" \in DOMAIN out[c].value.headers

\* C7: in after_conditional_fetch, when the revalidation status is 304 (and
\* the 5xx/must-revalidate branch does not apply), the policy returned by
\* after_response, in either arm, replaces the old one, the returned headers
\* are merged into the cached response, x-cache is set to HIT, exactly one
\* manager.put stores the updated cached response with the new policy under
\* (METHOD_UPPER, url), and the response returned has the cached body and
\* equals what was stored.
C7_NotModifiedUpdatesEntry ==
    [][\A c \in Clients :
          (AfterConditionalFetchStep(c) /\ net[c].status = 304) =>
              \E a \in PolicyAfterResponse(
                           HeldPolicy(c), stage[c].value.request_parts,
                           parts(cache_lookup_status(net[c], "HIT"))) :
                  LET updated ==
                          [HeldResponse(c) EXCEPT !.headers =
                              [n \in DOMAIN HeldResponse(c).headers
                                       \cup DOMAIN a.parts.headers
                                       \cup {XCACHE, XCACHELOOKUP} |->
                                  IF n \in {XCACHE, XCACHELOOKUP} THEN "HIT"
                                  ELSE IF n \in DOMAIN a.parts.headers
                                  THEN a.parts.headers[n]
                                  ELSE HeldResponse(c).headers[n]]]
                  IN  /\ Len(NewCalls(c)) = 1
                      /\ NewCalls(c)[1].op = "put"
                      /\ NewCalls(c)[1].method = ReqMethod(c)
                      /\ NewCalls(c)[1].url = ReqUrl(c)
                      /\ NewCalls(c)[1].response = updated
                      /\ NewCalls(c)[1].policy = a.policy
                      /\ updated.body = HeldResponse(c).body
                      /\ IF NewCalls(c)[1].ok
                         THEN /\ ret'[c] = Ok(updated)
                              /\ out'[c] = Ok(updated)
                              /\ store' = [k \in DOMAIN store \cup {ReqKey(c)} |->
                                              IF k = ReqKey(c)
                                              THEN [response |-> updated,
                                                    policy |-> a.policy]
                                              ELSE store[k]]
                         ELSE /\ ret'[c] = Err
                              /\ store' = store]_vars

\* a 304 refreshed the entry: the stored policy took the date of the 304
\* and the cached body was returned
C7_Witness ==
    \E c \in Clients :
        /\ pc[c] = "done"
        /\ net[c] # None
        /\ net[c].status = 304
        /\ stage[c] # None
        /\ out[c] # Err
        /\ out[c].value.body = HeldResponse(c).body
        /\ out[c].value.headers["date"] = net[c].headers["date"]
        /\ HeldResponse(c).headers["date"] # net[c].headers["date"]
        /\ store[ReqKey(c)].response = out[c].value
        /\ store[ReqKey(c)].policy # HeldPolicy(c)

\* C8: in after_conditional_fetch, when the revalidation status is 200, a
\* fresh policy is built from (request, conditional response), the
\* conditional response gets x-cache = MISS (with x-cache-lookup = HIT), it
\* is stored by exactly one manager.put under (METHOD_UPPER, url) replacing
\* the old entry, and that fresh response is returned to the caller.
C8_ModifiedReplacesEntry ==
    [][\A c \in Clients :
          (AfterConditionalFetchStep(c) /\ net[c].status = 200) =>
              LET fresh == [net[c] EXCEPT !.headers =
                               [n \in DOMAIN net[c].headers
                                        \cup {XCACHE, XCACHELOOKUP} |->
                                   IF n = XCACHE THEN "MISS"
                                   ELSE IF n = XCACHELOOKUP THEN "HIT"
                                   ELSE net[c].headers[n]]]
                  policy == CachePolicyNew(stage[c].value.request_parts,
                                           parts(fresh))
              IN  /\ Len(NewCalls(c)) = 1
                  /\ NewCalls(c)[1].op = "put"
                  /\ NewCalls(c)[1].method = ReqMethod(c)
                  /\ NewCalls(c)[1].url = ReqUrl(c)
                  /\ NewCalls(c)[1].response = fresh
                  /\ NewCalls(c)[1].policy = policy
                  /\ IF NewCalls(c)[1].ok
                     THEN /\ ret'[c] = Ok(fresh)
                          /\ out'[c] = Ok(fresh)
                          /\ store'[ReqKey(c)] =
                                [response |-> fresh, policy |-> policy]
                          /\ DOMAIN store' = DOMAIN store
                          /\ \A k \in DOMAIN store \ {ReqKey(c)} :
                                store'[k] = store[k]
                     ELSE /\ ret'[c] = Err
                          /\ store' = store]_vars

\* a 200 on revalidation replaced the entry by a response with a new body
C8_Witness ==
    \E c \in Clients :
        /\ pc[c] = "done"
        /\ net[c] # None
        /\ net[c].status = 200
        /\ stage[c] # None
        /\ out[c] # Err
        /\ out[c].value.body = net[c].body
        /\ out[c].value.body # HeldResponse(c).body
        /\ out[c].value.headers[XCACHE] = "MISS"
        /\ store[ReqKey(c)].response = out[c].value

\* the cached response's cache-control names must-revalidate, in any case
CarriesMustRevalidate(r) ==
    /\ "cache-control" \in DOMAIN r.headers
    /\ \E i \in 1..Len(r.headers["cache-control"]) :
          r.headers["cache-control"][i] \in {"must-revalidate", "Must-Revalidate"}

\* r with both cache-status headers set to HIT
MarkedHit(r) ==
    [r EXCEPT !.headers =
        [n \in DOMAIN r.headers \cup {XCACHE, XCACHELOOKUP} |->
            IF n \in {XCACHE, XCACHELOOKUP} THEN "HIT" ELSE r.headers[n]]]

\* C9: in after_conditional_fetch, when the revalidation status is 5xx and
\* the cached response's cache-control contains must-revalidate, the cached
\* (stale) response is returned carrying a warning with code 111
\* "Revalidation failed", x-cache = HIT and x-cache-lookup = HIT, and no
\* store operation is performed: the stored entry is unchanged and does not
\* carry the 111 warning.
C9_RevalidationFailedWarning ==
    [][\A c \in Clients :
          (/\ AfterConditionalFetchStep(c)
           /\ net[c].status \in 500..599
           /\ CarriesMustRevalidate(HeldResponse(c))) =>
              /\ ret'[c] # Err
              /\ out'[c] = ret'[c]
              /\ LET r == ret'[c].value
                 IN  /\ r.body = HeldResponse(c).body
                     /\ r.status = HeldResponse(c).status
                     /\ "warning" \in DOMAIN r.headers
                     /\ r.headers["warning"].code = "111"
                     /\ r.headers["warning"].text = "Revalidation failed"
                     /\ r.headers[XCACHE] = "HIT"
                     /\ r.headers[XCACHELOOKUP] = "HIT"
                     /\ \A n \in DOMAIN HeldResponse(c).headers
                                   \ {"warning", XCACHE, XCACHELOOKUP} :
                           r.headers[n] = HeldResponse(c).headers[n]
                     /\ \A k \in DOMAIN store' :
                           "warning" \in DOMAIN store'[k].response.headers =>
                               store'[k].response.headers["warning"].code # "111"
              /\ NewCalls(c) = <<>>
              /\ store' = store]_vars

\* a 503 on revalidating a must-revalidate entry served the stale body with
\* the 111 warning, which the stored entry does not have
C9_Witness ==
    \E c \in Clients :
        /\ pc[c] = "done"
        /\ net[c] # None
        /\ net[c].status = 503
        /\ stage[c] # None
        /\ out[c] # Err
        /\ "warning" \in DOMAIN out[c].value.headers
        /\ out[c].value.headers["warning"].code = "111"
        /\ ReqKey(c) \in DOMAIN store
        /\ out[c].value.body = store[ReqKey(c)].response.body
        /\ out[c].value.status = 200
        /\ "warning" \notin DOMAIN store[ReqKey(c)].response.headers

\* a revalidation in Default mode that got a 5xx for a cached response
\* without must-revalidate
C10_Case(c) ==
    /\ AfterConditionalFetchStep(c)
    /\ mode[c] = "Default"
    /\ net[c].status \in 500..599
    /\ ~CarriesMustRevalidate(HeldResponse(c))

\* C10 as claimed: in Default mode, when a stale cached entry is revalidated,
\* the network returns a 5xx status and the cached response does not carry
\* must-revalidate, the response returned to the caller is the 5xx network
\* response (not the cached one) and the store is left untouched.
C10_Original ==
    [][\A c \in Clients :
          C10_Case(c) =>
              /\ out'[c] # Err
              /\ out'[c].value.status = net[c].status
              /\ out'[c].value.body = net[c].body
              /\ store' = store]_vars

\* C10 (amended): in that case the response returned to the caller is the
\* cached (stale) response with x-cache = HIT and x-cache-lookup = HIT and no
\* warning added, not the 5xx network response, and the store is left
\* untouched.
C10_StaleServedOn5xx ==
    [][\A c \in Clients :
          C10_Case(c) =>
              /\ ret'[c] = Ok(MarkedHit(HeldResponse(c)))
              /\ out'[c] = ret'[c]
              /\ out'[c].value.status # net[c].status
              /\ NewCalls(c) = <<>>
              /\ store' = store]_vars

\* a 503 on revalidating an entry without must-revalidate served the stale
\* body, not the 503
C10_Witness ==
    \E c \in Clients :
        /\ pc[c] = "done"
        /\ mode[c] = "Default"
        /\ net[c] # None
        /\ net[c].status = 503
        /\ stage[c] # None
        /\ ~CarriesMustRevalidate(HeldResponse(c))
        /\ out[c] # Err
        /\ out[c].value.status = 200
        /\ out[c].value.body = HeldResponse(c).body
        /\ out[c].value.body # net[c].body
        /\ out[c].value.headers[XCACHE] = "HIT"


\* a revalidation answered with a valid status that is neither 304 nor 200
\* and is not a 5xx for a cached response carrying must-revalidate
C11_Case(c) ==
    /\ AfterConditionalFetchStep(c)
    /\ StatusValid(net[c].status)
    /\ net[c].status \notin {200, 304}
    /\ ~(net[c].status \in 500..599 /\ CarriesMustRevalidate(HeldResponse(c)))

\* C11: in after_conditional_fetch, for every revalidation status that is
\* neither 304 nor 200 and is not a 5xx with must-revalidate, the cached
\* response is returned with x-cache = HIT and otherwise unchanged (no warning
\* added), and no manager.put or manager.delete is performed.
C11_OtherStatusServesCached ==
    [][\A c \in Clients :
          C11_Case(c) =>
              /\ ret'[c] # Err
              /\ ret'[c].value =
                    [HeldResponse(c) EXCEPT
                        !.headers = HeaderInsert(@, XCACHE, HIT)]
              /\ ("warning" \in DOMAIN ret'[c].value.headers)
                    = ("warning" \in DOMAIN HeldResponse(c).headers)
              /\ ~HasCall(NewCalls(c), "put")
              /\ ~HasCall(NewCalls(c), "delete")
              /\ store' = store]_vars

\* a 404 on revalidation served the cached 200 marked HIT, without a warning,
\* and the entry is still the stored one
C11_Witness ==
    \E c \in Clients :
        /\ pc[c] = "done"
        /\ net[c] # None
        /\ net[c].status = 404
        /\ stage[c] # None
        /\ ret[c] # None
        /\ ret[c] # Err
        /\ ret[c].value.status = 200
        /\ ret[c].value.headers[XCACHE] = HIT
        /\ "warning" \notin DOMAIN ret[c].value.headers
        /\ ReqKey(c) \in DOMAIN store
        /\ ret[c].value.body = store[ReqKey(c)].response.body
        /\ ~HasCall(calls[c], "put")


\* a GET/HEAD lookup in ForceCache or OnlyIfCached mode that hit
C12_Case(c) ==
    /\ BeforeRequestStep(c)
    /\ mode[c] \in {"ForceCache", "OnlyIfCached"}
    /\ req[c].method \in {"GET", "HEAD"}
    /\ UrlValid(c)
    /\ ReqKey(c) \in DOMAIN store
    /\ act'[c] # Err

\* C12: in ForceCache or OnlyIfCached mode, when the lookup for a GET/HEAD
\* request hits, before_request returns Cached with the stored response
\* regardless of freshness, carrying a warning with code 112 "Disconnected
\* operation" whose warn-agent is the host of the response URL, x-cache = HIT
\* and x-cache-lookup = HIT; no network fetch and no store write happen.
C12_OfflineHitServesStored ==
    [][\A c \in Clients :
          C12_Case(c) =>
              LET stored == store[ReqKey(c)].response
                  served == act'[c].value.response
              IN  /\ act'[c].value.tag = "Cached"
                  /\ served.body = stored.body
                  /\ served.status = stored.status
                  /\ served.url = stored.url
                  /\ \A n \in DOMAIN stored.headers \ {"warning", XCACHE, XCACHELOOKUP} :
                        /\ n \in DOMAIN served.headers
                        /\ served.headers[n] = stored.headers[n]
                  /\ "warning" \in DOMAIN served.headers
                  /\ served.headers["warning"] =
                        WarningValue("112", UrlHost(stored.url),
                                     "Disconnected operation", HttpDateNow)
                  /\ served.headers[XCACHE] = HIT
                  /\ served.headers[XCACHELOOKUP] = HIT
                  /\ out'[c] = Ok(served)
                  /\ pc'[c] = "done"
                  /\ sent'[c] = None
                  /\ net'[c] = None
                  /\ ~HasCall(calls'[c], "put")
                  /\ ~HasCall(calls'[c], "delete")
                  /\ store' = store]_vars

\* a ForceCache request was answered from the store, with the 112 warning
\* naming the host, for an entry whose policy asks for revalidation
C12_Witness ==
    \E c \in Clients :
        /\ pc[c] = "done"
        /\ mode[c] = "ForceCache"
        /\ act[c] # None
        /\ act[c] # Err
        /\ act[c].value.tag = "Cached"
        /\ act[c].value.response.headers["warning"].code = "112"
        /\ act[c].value.response.headers["warning"].agent = "x"
        /\ act[c].value.response.headers[XCACHE] = HIT
        /\ CarriesMustRevalidate(act[c].value.response)
        /\ ReqKey(c) \in DOMAIN store
        /\ act[c].value.response.body = store[ReqKey(c)].response.body
        /\ sent[c] = None


\* a GET/HEAD lookup that was performed and found no entry
C13_Case(c) ==
    /\ BeforeRequestStep(c)
    /\ req[c].method \in {"GET", "HEAD"}
    /\ UrlValid(c)
    /\ HasCall(NewCalls(c), "get")
    /\ ReqKey(c) \notin DOMAIN store
    /\ act'[c] # Err

\* the synthetic response of a miss in OnlyIfCached mode
GatewayTimeoutResponse(url) ==
    [body |-> "GatewayTimeout", status |-> 504, url |-> url,
     headers |-> [n \in {XCACHE, XCACHELOOKUP} |-> MISS]]

C15_Case(c) ==
    /\ pc[c] = "after_remote_fetch_force_no_cache"
    /\ pc'[c] # pc[c]
    /\ mode[c] = "NoCache"
    /\ ret'[c] # Err

\* C15 as claimed: in NoCache mode, after a hit leads to a forced refetch and
\* after_remote_fetch completes, the store has been updated: the previously
\* cached entry for that key has been discarded and the entry at the key is
\* the refetched response, for every network response status.
C15_Original ==
    [][\A c \in Clients :
          C15_Case(c) =>
              /\ ReqKey(c) \in DOMAIN store'
              /\ store'[ReqKey(c)].response = net[c]]_vars

\* C15 (amended): the entry at the key is the refetched response when that
\* response has status 200 and a storable policy; for every other network
\* response the previously cached entry stays at the key unchanged.
C15_RefetchStoredWhenCacheable ==
    [][\A c \in Clients :
          C15_Case(c) =>
              LET policy == CachePolicyNew(req[c], parts(net[c]))
              IN  /\ ReqKey(c) \in DOMAIN store
                  /\ ReqKey(c) \in DOMAIN store'
                  /\ IF net[c].status = 200 /\ is_storable(policy)
                     THEN /\ store'[ReqKey(c)] =
                                [response |-> net[c], policy |-> policy]
                          /\ HasCall(NewCalls(c), "put")
                     ELSE /\ store' = store
                          /\ NewCalls(c) = <<>>]_vars

\* a forced refetch got a 404 and left the 200 that was cached before at the
\* key
C15_Witness ==
    \E c \in Clients :
        /\ pc[c] = "done"
        /\ mode[c] = "NoCache"
        /\ act[c] = Ok(ActionRemote(FetchForceNoCache))
        /\ ret[c] # None
        /\ ret[c] # Err
        /\ net[c].status = 404
        /\ ReqKey(c) \in DOMAIN store
        /\ store[ReqKey(c)].response.status = 200
        /\ store[ReqKey(c)].response.body # net[c].body


\* C16: in Reload mode a request never reads the store (no manager.get), and
\* when a GET/HEAD network response has status 200 and a storable policy, the
\* new response is written to the store so that a later request in a
\* cache-reading mode finds it.
C16_ReloadSkipsReadAndWrites ==
    [][\A c \in Clients :
          /\ (BeforeRequestStep(c) /\ mode[c] = "Reload") =>
                ~HasCall(NewCalls(c), "get")
          /\ (/\ AfterRemoteFetchStep(c)
              /\ mode[c] = "Reload"
              /\ req[c].method \in {"GET", "HEAD"}
              /\ UrlValid(c)
              /\ net[c].status = 200
              /\ is_storable(CachePolicyNew(req[c], parts(net[c])))
              /\ ret'[c] # Err) =>
                /\ ReqKey(c) \in DOMAIN store'
                /\ store'[ReqKey(c)].response = net[c]]_vars

\* the write half of C16 alone: a Reload GET/HEAD answered 200 with a storable
\* policy leaves the response in the store
C16_ReloadWrites ==
    [][\A c \in Clients :
          (/\ AfterRemoteFetchStep(c)
           /\ mode[c] = "Reload"
           /\ req[c].method \in {"GET", "HEAD"}
           /\ UrlValid(c)
           /\ net[c].status = 200
           /\ is_storable(CachePolicyNew(req[c], parts(net[c])))
           /\ ret'[c] # Err) =>
              /\ ReqKey(c) \in DOMAIN store'
              /\ store'[ReqKey(c)].response = net[c]]_vars


\* a step of a request made in NoStore or Reload mode
C17_Case(c) ==
    /\ pc[c] \notin {"idle", "done"}
    /\ pc'[c] # pc[c]
    /\ mode[c] \in {"NoStore", "Reload"}

HandedBack(a) ==
    IF a.value.tag = "Cached" THEN a.value.response
    ELSE a.value.fetch.stage.response

\* before_request returning a stored response whose warning code is 1xx
C18_Case(c) ==
    /\ BeforeRequestStep(c)
    /\ mode[c] \in {"Default", "ForceCache", "OnlyIfCached"}
    /\ HasCall(NewCalls(c), "get")
    /\ ReqKey(c) \in DOMAIN store
    /\ "warning" \in DOMAIN store[ReqKey(c)].response.headers
    /\ ParseCode(store[ReqKey(c)].response.headers["warning"].code) \in 100..199
    /\ act'[c] # Err

\* C18: whenever before_request returns a stored response (inside BeforeFetch
\* in Default mode or inside Cached in ForceCache/OnlyIfCached mode) and the
\* stored response had a warning header whose code is in 100..199, the
\* response handed back does not carry that stored warning.
C18_StoredWarning1xxPurged ==
    [][\A c \in Clients :
          C18_Case(c) =>
              LET stored == store[ReqKey(c)].response
                  handed == HandedBack(act'[c])
              IN  /\ handed.body = stored.body
                  /\ "warning" \in DOMAIN handed.headers =>
                        /\ handed.headers["warning"] # stored.headers["warning"]
                        /\ handed.headers["warning"].code = "112"
                        /\ mode[c] \in {"ForceCache", "OnlyIfCached"}
                  /\ mode[c] = "Default" =>
                        "warning" \notin DOMAIN handed.headers]_vars

\* a Default request holds, for revalidation, the stored response without
\* the 110 warning the entry carries
C18_Witness ==
    \E c \in Clients :
        /\ pc[c] = "before_conditional_fetch"
        /\ mode[c] = "Default"
        /\ ReqKey(c) \in DOMAIN store
        /\ "warning" \in DOMAIN store[ReqKey(c)].response.headers
        /\ store[ReqKey(c)].response.headers["warning"].code = "110"
        /\ HeldResponse(c).body = store[ReqKey(c)].response.body
        /\ "warning" \notin DOMAIN HeldResponse(c).headers


\* C19: every response that an adapter returns to the caller, on every path
\* (Cached, Normal fetch, ForceNoCache fetch, fresh conditional hit, and each
\* after_conditional_fetch branch) and for any headers sent by the origin,
\* carries both an x-cache header and an x-cache-lookup header whose values
\* are each exactly HIT or MISS.
C19_CacheStatusHeadersHitOrMiss ==
    \A c \in Clients :
        (out[c] # None /\ out[c] # Err) =>
            /\ XCACHE \in DOMAIN out[c].value.headers
            /\ XCACHELOOKUP \in DOMAIN out[c].value.headers
            /\ out[c].value.headers[XCACHE] \in {HIT, MISS}
            /\ out[c].value.headers[XCACHELOOKUP] \in {HIT, MISS}

\* C20: for every response returned to the caller with x-cache = HIT, after
\* any sequence of requests, the returned body equals a body that was stored
\* by an earlier put at the same (METHOD_UPPER, url) key as the request being
\* served.
C20_HitBodyWasStored ==
    \A c \in Clients :
        (/\ out[c] # None
         /\ out[c] # Err
         /\ XCACHE \in DOMAIN out[c].value.headers
         /\ out[c].value.headers[XCACHE] = HIT) =>
            <<ReqMethod(c), ReqUrl(c), out[c].value.body>> \in puts


\* the number of calls of one kind among the calls cs
CountCalls(cs, op) == Cardinality({i \in DOMAIN cs : cs[i].op = op})

\* C21: for each single request, the engine calls the manager at most three
\* times: at most one get, at most one put and at most one delete, and the
\* get (when it happens) precedes any put or delete of that request.
C21_AtMostThreeManagerCalls ==
    \A c \in Clients :
        /\ Len(calls[c]) <= 3
        /\ CountCalls(calls[c], "get") <= 1
        /\ CountCalls(calls[c], "put") <= 1
        /\ CountCalls(calls[c], "delete") <= 1
        /\ \A i \in DOMAIN calls[c] : calls[c][i].op = "get" => i = 1

\* a request that looked up, revalidated and stored: a get followed by a put
C21_Witness ==
    \E c \in Clients :
        /\ pc[c] = "done"
        /\ Len(calls[c]) = 2
        /\ calls[c][1].op = "get"
        /\ calls[c][2].op = "put"
        /\ stage[c] # None


-----------------------------------------------------------------------------
(* after_remote_fetch called twice in a row on the same inputs *)

\* the entry a put of the 200 response of version v leaves at a key
IdemEntry(method, v) ==
    LET r == convert_from_reqwest_response(
                 OriginResponse(200, v, NoCacheControl, NoWarning),
                 "http://x/y")
    IN  [response |-> r,
         policy |-> CachePolicyNew(
                        [method |-> method, uri |-> "http://x/y",
                         headers |-> NoHeaders],
                        parts(r))]

\* a URL no request of the model names
OtherUrl == "http://x/z"

\* the entry a GET of OtherUrl left in the store
OtherUrlEntry ==
    LET r == convert_from_reqwest_response(
                 OriginResponse(200, 1, NoCacheControl, NoWarning), OtherUrl)
    IN  [response |-> r,
         policy |-> CachePolicyNew(
                        [method |-> "GET", uri |-> OtherUrl,
                         headers |-> NoHeaders],
                        parts(r))]

\* the stores the two calls may start from: each of the GET and HEAD keys
\* absent or holding one of two entries, with or without an entry for
\* another URL
IdemStores ==
    { [k \in { Key(m, "http://x/y") : m \in DOMAIN f } \cup o |->
          IF k \in o THEN OtherUrlEntry ELSE IdemEntry(k[1], f[k[1]])] :
        f \in UNION { [ms -> Versions] : ms \in SUBSET {"GET", "HEAD"} },
        o \in {{}, {Key("GET", OtherUrl)}} }

\* any mode, request, network response and starting store
InitIdem ==
    /\ store \in IdemStores
    /\ pc = [c \in Clients |-> "after_remote_fetch_first"]
    /\ mode \in [Clients -> Modes]
    /\ req \in [Clients ->
                  [method : Methods, uri : Uris, headers : {NoHeaders}]]
    /\ \E o \in [Clients -> OriginResponses] :
          net = [c \in Clients |->
                    convert_from_reqwest_response(o[c], UrlParse(req[c].uri))]
    /\ act = [c \in Clients |-> None]
    /\ stage = [c \in Clients |-> None]
    /\ sent = [c \in Clients |-> None]
    /\ ret = [c \in Clients |-> None]
    /\ out = [c \in Clients |-> None]
    /\ calls = [c \in Clients |-> <<>>]
    /\ puts = {}
    /\ started = 0

\* one call of after_remote_fetch on the inputs drawn by InitIdem
AfterRemoteFetchCall(c, from, to) ==
    /\ pc[c] = from
    /\ \E mgrOk \in BOOLEAN :
          LET r == after_remote_fetch(mode[c], net[c], req[c], store, mgrOk)
          IN  /\ ret' = [ret EXCEPT ![c] = r.ret]
              /\ store' = r.store
              /\ calls' = [calls EXCEPT ![c] = calls[c] \o r.calls]
              /\ puts' = puts \cup PutBodies(r.calls)
    /\ pc' = [pc EXCEPT ![c] = to]
    /\ UNCHANGED <<mode, req, act, stage, sent, net, out, started>>

AfterRemoteFetchFirst(c) ==
    AfterRemoteFetchCall(c, "after_remote_fetch_first",
                         "after_remote_fetch_second")

AfterRemoteFetchSecond(c) ==
    AfterRemoteFetchCall(c, "after_remote_fetch_second", "done")

NextIdem ==
    \E c \in Clients :
        \/ AfterRemoteFetchFirst(c)
        \/ AfterRemoteFetchSecond(c)

SpecIdem == InitIdem /\ [][NextIdem]_vars

\* the second call, with the manager answering as it did to the first
C22_Case(c) ==
    /\ pc[c] = "after_remote_fetch_second"
    /\ pc'[c] = "done"
    /\ NewCalls(c) = calls[c]

-----------------------------------------------------------------------------
(* Claims on the middleware, continued *)

\* the lookup of before_request failed
C23_Case(c) ==
    /\ BeforeRequestStep(c)
    /\ NewCalls(c) # <<>>
    /\ NewCalls(c)[1].op = "get"
    /\ ~NewCalls(c)[1].ok

\* C23: if manager.get fails during the lookup in before_request,
\* before_request returns that error and no Action: the adapter returns an
\* error to the caller, performs no network fetch, serves no cached or stale
\* response, and makes no store write.
C23_LookupErrorPropagates ==
    [][\A c \in Clients :
          /\ C23_Case(c) =>
                /\ act'[c] = Err
                /\ out'[c] = Err
                /\ pc'[c] = "done"
                /\ sent'[c] = None
                /\ net'[c] = None
                /\ NewCalls(c) = <<GetCall(ReqMethod(c), ReqUrl(c), FALSE)>>
                /\ store' = store
                /\ puts' = puts]_vars

\* a request to a key the store holds ended with an error after the one
\* failed get, with nothing sent and the entry not served
C23_Witness ==
    \E c \in Clients :
        /\ pc[c] = "done"
        /\ act[c] = Err
        /\ out[c] = Err
        /\ calls[c] = <<GetCall("GET", "http://x/y", FALSE)>>
        /\ Key("GET", "http://x/y") \in DOMAIN store
        /\ sent[c] = None


\* a put made in this step failed
PutFailed(c) ==
    \E i \in DOMAIN NewCalls(c) :
        NewCalls(c)[i].op = "put" /\ ~NewCalls(c)[i].ok

\* C24: if manager.put fails in after_remote_fetch or in
\* after_conditional_fetch (304 or 200 branch), the operation returns that
\* error instead of success, and the adapter returns an error to the caller
\* rather than the fetched or cached response.
C24_PutErrorPropagates ==
    [][\A c \in Clients :
          ((AfterRemoteFetchStep(c) \/ AfterConditionalFetchStep(c))
           /\ PutFailed(c)) =>
              /\ ret'[c] = Err
              /\ out'[c] = Err
              /\ pc'[c] = "done"
              /\ store' = store]_vars

\* a revalidation answered 200 whose put failed ended with an error, the
\* entry cached before still at the key
C24_Witness ==
    \E c \in Clients :
        /\ pc[c] = "done"
        /\ stage[c] # None
        /\ net[c] # None
        /\ net[c].status = 200
        /\ Len(calls[c]) = 2
        /\ calls[c][2].op = "put"
        /\ ~calls[c][2].ok
        /\ ret[c] = Err
        /\ out[c] = Err
        /\ ReqKey(c) \in DOMAIN store
        /\ store[ReqKey(c)].response.body = HeldResponse(c).body


-----------------------------------------------------------------------------
(* Two requests in flight over one manager, and requests dropped while they *)
(* wait: every engine operation awaits the manager once, so the operations *)
(* and the network fetch are the steps that interleave                      *)

Clients2 == {"c1", "c2"}

ConcModes == {"Default", "NoCache"}

ConcMethods == {"GET", "POST"}

ConcUri == "http://x/y"

ConcOriginResponses ==
    { OriginResponse(200, v, NoCacheControl, NoWarning) : v \in Versions }
    \cup { OriginResponse(304, 1, NoCacheControl, NoWarning) }

\* the store is empty or holds the entry an earlier GET left
ConcStores ==
    { EmptyStore,
      ManagerPut(EmptyStore, "GET", ConcUri,
                 IdemEntry("GET", 1).response, IdemEntry("GET", 1).policy) }

InitConc ==
    /\ store \in ConcStores
    /\ puts = { <<k[1], k[2], store[k].response.body>> : k \in DOMAIN store }
    /\ pc = [c \in Clients2 |-> "idle"]
    /\ mode = [c \in Clients2 |-> "Default"]
    /\ req = [c \in Clients2 |-> None]
    /\ act = [c \in Clients2 |-> None]
    /\ stage = [c \in Clients2 |-> None]
    /\ sent = [c \in Clients2 |-> None]
    /\ net = [c \in Clients2 |-> None]
    /\ ret = [c \in Clients2 |-> None]
    /\ out = [c \in Clients2 |-> None]
    /\ calls = [c \in Clients2 |-> <<>>]
    /\ started = 0

\* a request enters handle() while another may be in flight
StartConc(c) ==
    /\ pc[c] \in {"idle", "done", "cancelled"}
    /\ started < MaxRequests
    /\ \E m \in ConcModes, method \in ConcMethods :
          /\ mode' = [mode EXCEPT ![c] = m]
          /\ req' = [req EXCEPT ![c] =
                        [method |-> method, uri |-> ConcUri,
                         headers |-> NoHeaders]]
    /\ pc' = [pc EXCEPT ![c] = "before_request"]
    /\ act' = [act EXCEPT ![c] = None]
    /\ stage' = [stage EXCEPT ![c] = None]
    /\ sent' = [sent EXCEPT ![c] = None]
    /\ net' = [net EXCEPT ![c] = None]
    /\ ret' = [ret EXCEPT ![c] = None]
    /\ out' = [out EXCEPT ![c] = None]
    /\ calls' = [calls EXCEPT ![c] = <<>>]
    /\ started' = started + 1
    /\ UNCHANGED <<store, puts>>

\* next.run(req, extensions).await and convert_from_reqwest_response
FetchConc(c) ==
    /\ pc[c] \in {"fetch_normal", "fetch_force_no_cache", "fetch_conditional"}
    /\ sent' = [sent EXCEPT ![c] = Ok(OutgoingHeaders(c))]
    /\ \E o \in ConcOriginResponses :
          net' = [net EXCEPT ![c] =
                     convert_from_reqwest_response(o, UrlParse(req[c].uri))]
    /\ pc' = [pc EXCEPT ![c] =
                 IF pc[c] = "fetch_conditional"
                 THEN "after_conditional_fetch"
                 ELSE IF pc[c] = "fetch_force_no_cache"
                 THEN "after_remote_fetch_force_no_cache"
                 ELSE "after_remote_fetch"]
    /\ UNCHANGED <<store, mode, req, act, stage, ret, out, calls, puts,
                   started>>

\* what the manager holds after the calls cs, taken in order
RECURSIVE ApplyCalls(_, _)
ApplyCalls(s, cs) ==
    IF cs = <<>> THEN s
    ELSE LET call == Head(cs)
             s1 == IF ~call.ok THEN s
                   ELSE IF call.op = "put"
                   THEN ManagerPut(s, call.method, call.url, call.response,
                                   call.policy)
                   ELSE IF call.op = "delete"
                   THEN ManagerDelete(s, call.method, call.url)
                   ELSE s
         IN  ApplyCalls(s1, Tail(cs))

\* the manager calls the operation c is waiting in can make
PendingCalls(c) ==
    CASE pc[c] = "before_request" ->
           { before_request(mode[c], req[c], store, mgrOk).calls :
               mgrOk \in BOOLEAN }
      [] pc[c] \in {"after_remote_fetch",
                    "after_remote_fetch_force_no_cache"} ->
           { after_remote_fetch(mode[c], net[c], req[c], store, mgrOk).calls :
               mgrOk \in BOOLEAN }
      [] pc[c] = "after_conditional_fetch" ->
           { after_conditional_fetch(
                 stage[c].value.request_parts,
                 act[c].value.fetch.stage.response, net[c],
                 act[c].value.fetch.stage.policy,
                 store, b[1], b[2]).calls :
               b \in BOOLEAN \X BOOLEAN }
      [] OTHER -> { <<>> }

\* the future of handle() is dropped while it waits for the manager or the
\* network: the manager calls made so far took effect, the rest never run
Cancel(c) ==
    /\ pc[c] \in {"before_request", "fetch_normal", "fetch_force_no_cache",
                   "fetch_conditional", "after_remote_fetch",
                   "after_remote_fetch_force_no_cache",
                   "after_conditional_fetch"}
    /\ \E cs \in PendingCalls(c) :
          \E n \in 0..Len(cs) :
              /\ store' = ApplyCalls(store, SubSeq(cs, 1, n))
              /\ calls' = [calls EXCEPT ![c] = calls[c] \o SubSeq(cs, 1, n)]
              /\ puts' = puts \cup PutBodies(SubSeq(cs, 1, n))
    /\ pc' = [pc EXCEPT ![c] = "cancelled"]
    /\ UNCHANGED <<mode, req, act, stage, sent, net, ret, out, started>>

NextConc ==
    \E c \in Clients2 :
        \/ StartConc(c)
        \/ BeforeRequest(c)
        \/ BeforeConditionalFetch(c)
        \/ FetchConc(c)
        \/ FetchFails(c)
        \/ AfterRemoteFetch(c)
        \/ AfterConditionalFetch(c)
        \/ Cancel(c)

SpecConc == InitConc /\ [][NextConc]_vars


\* the (response, policy) pairs the operation c is in builds from what c
\* itself holds: its request, its network response and the entry it was
\* handed by its own lookup
OwnPairs(c) ==
    IF pc[c] = "after_conditional_fetch"
    THEN LET held == cache_lookup_status(HeldResponse(c), HIT)
             cond == cache_lookup_status(net[c], HIT)
         IN  IF net[c].status = 304
             THEN { [response |-> cache_status(
                                      update_headers(held, a.parts), HIT),
                     policy |-> a.policy] :
                      a \in PolicyAfterResponse(HeldPolicy(c),
                                                stage[c].value.request_parts,
                                                parts(cond)) }
             ELSE { [response |-> cache_status(cond, MISS),
                     policy |-> CachePolicyNew(stage[c].value.request_parts,
                                               parts(cond))] }
    ELSE { [response |-> net[c],
            policy |-> CachePolicyNew(req[c], parts(net[c]))] }

\* the calls of this step that changed the store
Writes(c) ==
    { i \in DOMAIN NewCalls(c) :
        NewCalls(c)[i].op \in {"put", "delete"} /\ NewCalls(c)[i].ok }

\* c completes after_remote_fetch or after_conditional_fetch
C25_Case(c) ==
    /\ pc[c] \in {"after_remote_fetch", "after_remote_fetch_force_no_cache",
                   "after_conditional_fetch"}
    /\ pc'[c] = "done"

\* C25: when two requests for the same key run concurrently and interleave
\* at the engine's suspension points (store get, network fetch, store put),
\* the last writer wins: after both complete, the store entry for the key is
\* exactly the (response, policy) pair passed to whichever put executed last,
\* never a mixture of one request's response with the other's policy, and
\* each request still returns a complete response.  Stated step by step: a
\* put leaves at the key exactly the pair the putting request built from its
\* own data, whatever the other request did in between; a step without a
\* write leaves the store as it is; a request that ends without an error
\* returns its own network response or the response its own lookup gave it.
C25_LastWriterWins ==
    [][\A c \in Clients2 :
          /\ C25_Case(c) =>
                /\ \A i \in Writes(c) :
                      NewCalls(c)[i].op = "put" =>
                          LET p == NewCalls(c)[i]
                              pair == [response |-> p.response,
                                       policy |-> p.policy]
                          IN  /\ pair \in OwnPairs(c)
                              /\ Key(p.method, p.url) = ReqKey(c)
                              /\ ReqKey(c) \in DOMAIN store'
                              /\ store'[ReqKey(c)] = pair
                              /\ \A k \in DOMAIN store' \ {ReqKey(c)} :
                                    k \in DOMAIN store /\ store'[k] = store[k]
                /\ ret'[c] # Err =>
                      /\ out'[c] # Err
                      /\ out'[c] # None
                      /\ \/ /\ out'[c].value.body = net[c].body
                            /\ out'[c].value.status = net[c].status
                         \/ /\ pc[c] = "after_conditional_fetch"
                            /\ out'[c].value.body = HeldResponse(c).body
                            /\ out'[c].value.status = HeldResponse(c).status
                      /\ out'[c].value.url = ReqUrl(c)
                      /\ {XCACHE, XCACHELOOKUP} \subseteq
                            DOMAIN out'[c].value.headers
          /\ (pc'[c] # pc[c] /\ pc'[c] # "cancelled" /\ Writes(c) = {}) =>
                store' = store]_vars

\* both requests revalidated the entry b1 at the same time: c1 got a 200 with
\* b2 and stored it, then c2 got a 304 and stored the b1 it had been handed,
\* which is the entry now; each returned its own response
C25_Witness ==
    /\ pc["c1"] = "done"
    /\ pc["c2"] = "done"
    /\ req["c1"].method = "GET"
    /\ req["c2"].method = "GET"
    /\ stage["c1"] # None
    /\ stage["c2"] # None
    /\ net["c1"] # None
    /\ net["c2"] # None
    /\ net["c1"].status = 200
    /\ net["c1"].body = "b2"
    /\ net["c2"].status = 304
    /\ out["c1"] # Err
    /\ out["c2"] # Err
    /\ out["c1"].value.body = "b2"
    /\ out["c2"].value.body = "b1"
    /\ <<"GET", ConcUri, "b2">> \in puts
    /\ store[Key("GET", ConcUri)].response.body = "b1"
    /\ store[Key("GET", ConcUri)].response = out["c2"].value


\* what the store holds at key k
EntryAt(s, k) == IF k \in DOMAIN s THEN s[k] ELSE NoEntry

\* an entry that is a whole pair: a response of the key's URL and the policy
\* of that response for the key's method
CompleteEntry(k, e) ==
    /\ DOMAIN e = {"response", "policy"}
    /\ DOMAIN e.response = {"body", "headers", "status", "url"}
    /\ e.response.url = k[2]
    /\ e.policy.method = k[1]
    /\ RestrictHeaders(e.response.headers) = e.policy.headers

\* c is dropped while it waits
C26_Case(c) == pc[c] # "cancelled" /\ pc'[c] = "cancelled"

\* C26: if a request is cancelled at any suspension point (during the store
\* get, the network fetch, or the store put/delete), the store entry for its
\* key is afterwards either exactly what it was before the request's write or
\* exactly the complete (response, policy) pair of the write; no reachable
\* state holds a partial entry.  For a request whose write is a delete, the
\* outcome of the write is the absence of the entry.
C26_CancelLeavesOldOrNewEntry ==
    [][/\ \A c \in Clients2 :
             C26_Case(c) =>
                 \A k \in DOMAIN store \cup DOMAIN store' :
                     \/ EntryAt(store', k) = EntryAt(store, k)
                     \/ /\ \E cs \in PendingCalls(c) :
                              EntryAt(store', k) = EntryAt(ApplyCalls(store, cs), k)
                        /\ k \in DOMAIN store' =>
                              /\ k = ReqKey(c)
                              /\ store'[k] \in OwnPairs(c)
       /\ \A k \in DOMAIN store' : CompleteEntry(k, store'[k])]_vars

\* a request dropped during the put of its refetched b2: the put had taken
\* effect and the entry is the whole new pair, though nothing was returned
C26_Witness ==
    \E c \in Clients2 :
        /\ pc[c] = "cancelled"
        /\ net[c] # None
        /\ net[c].body = "b2"
        /\ ret[c] = None
        /\ out[c] = None
        /\ calls[c] # <<>>
        /\ calls[c][Len(calls[c])].op = "put"
        /\ calls[c][Len(calls[c])].ok
        /\ store[ReqKey(c)] =
              [response |-> calls[c][Len(calls[c])].response,
               policy |-> calls[c][Len(calls[c])].policy]
        /\ store[ReqKey(c)].response.body = "b2"


\* C27: the engine never produces an unreachable stage: before_request never
\* returns Remote(Conditional(Stage::Cached)) or
\* Remote(Conditional(Stage::UpdateRequestHeaders)) (the only Conditional
\* stage it returns is BeforeFetch), and before_conditional_fetch never
\* returns Stage::BeforeFetch; hence no adapter unreachable!() arm is ever
\* executed.
C27_NoUnreachableStage ==
    \A c \in Clients :
        /\ (/\ act[c] \notin {None, Err}
            /\ act[c].value.tag = "Remote"
            /\ act[c].value.fetch.tag = "Conditional") =>
               act[c].value.fetch.stage.tag = "BeforeFetch"
        /\ stage[c] \notin {None, Err} =>
               stage[c].value.tag \in {"Cached", "UpdateRequestHeaders"}
        /\ pc[c] # "unreachable"

\* a request went through both operations: before_request returned
\* Conditional(BeforeFetch) and before_conditional_fetch returned
\* UpdateRequestHeaders, and handle() went on to the conditional fetch
C27_Witness ==
    \E c \in Clients :
        /\ pc[c] = "fetch_conditional"
        /\ act[c] # None
        /\ act[c].value.fetch.tag = "Conditional"
        /\ act[c].value.fetch.stage.tag = "BeforeFetch"
        /\ stage[c] # None
        /\ stage[c].value.tag = "UpdateRequestHeaders"


\* a GET/HEAD request in NoCache mode gets its response after the fetch
C28_Case(c) ==
    /\ AfterRemoteFetchStep(c)
    /\ mode[c] = "NoCache"
    /\ req[c].method \in {"GET", "HEAD"}
    /\ HasCall(calls[c], "get")
    /\ ret'[c] # Err

-----------------------------------------------------------------------------
(* The tower adapter: Service::call and ResponseFuture::poll of             *)
(* http-cache-tower                                                         *)

\* Cache::call: the request goes to the inner service at once, and the
\* method, uri and headers are kept for the future
TowerCall(c) ==
    /\ pc[c] \in {"idle", "done"}
    /\ started < MaxRequests
    /\ \E m \in Modes, method \in Methods, uri \in Uris :
          /\ mode' = [mode EXCEPT ![c] = m]
          /\ req' = [req EXCEPT ![c] =
                        [method |-> method, uri |-> uri, headers |-> NoHeaders]]
    /\ sent' = [sent EXCEPT ![c] = Ok(NoHeaders)]
    /\ pc' = [pc EXCEPT ![c] = "tower_poll"]
    /\ act' = [act EXCEPT ![c] = None]
    /\ stage' = [stage EXCEPT ![c] = None]
    /\ net' = [net EXCEPT ![c] = None]
    /\ ret' = [ret EXCEPT ![c] = None]
    /\ out' = [out EXCEPT ![c] = None]
    /\ calls' = [calls EXCEPT ![c] = <<>>]
    /\ started' = started + 1
    /\ UNCHANGED <<store, puts>>

\* ResponseFuture::poll when the inner future is ready: the request parts are
\* rebuilt, the call of before_request is commented out, and the response
\* of the inner service is returned as it is
TowerPoll(c) ==
    /\ pc[c] = "tower_poll"
    /\ \E o \in OriginResponses :
          /\ net' = [net EXCEPT ![c] = o]
          /\ out' = [out EXCEPT ![c] = Ok(o)]
    /\ pc' = [pc EXCEPT ![c] = "done"]
    /\ UNCHANGED <<store, mode, req, act, stage, sent, ret, calls, puts,
                   started>>

\* ResponseFuture::poll when the inner future ends with an error
TowerPollFails(c) ==
    /\ pc[c] = "tower_poll"
    /\ out' = [out EXCEPT ![c] = Err]
    /\ pc' = [pc EXCEPT ![c] = "done"]
    /\ UNCHANGED <<store, mode, req, act, stage, sent, net, ret, calls, puts,
                   started>>

NextTower ==
    \E c \in Clients :
        \/ TowerCall(c)
        \/ TowerPoll(c)
        \/ TowerPollFails(c)

SpecTower == Init /\ [][NextTower]_vars

\* C29: every client adapter (reqwest, surf and tower) drives the engine: for
\* each request it calls before_request before any network fetch is issued,
\* issues a network fetch only when the returned Action is Remote, and
\* reports the fetched response back through after_remote_fetch or
\* after_conditional_fetch.
C29_AdapterDrivesEngine ==
    \A c \in Clients :
        /\ sent[c] # None =>
              /\ act[c] \notin {None, Err}
              /\ act[c].value.tag = "Remote"
        /\ (net[c] # None /\ out[c] # None) => ret[c] # None


\* C30: in Default mode, whenever the store holds an entry for the request
\* key and its policy evaluates to Fresh, the request is answered from the
\* store with x-cache = HIT and x-cache-lookup = HIT, with no network fetch
\* and no store write during that request.  The lookup of such a request
\* goes to before_conditional_fetch with the entry, without a fetch; when the
\* policy's verdict there is Fresh the request ends at once with the entry's
\* body and status.
C30_DefaultFreshServedFromStore ==
    [][\A c \in Clients :
          /\ (/\ BeforeRequestStep(c)
              /\ mode[c] = "Default"
              /\ HasCall(NewCalls(c), "get")
              /\ ReqKey(c) \in DOMAIN store
              /\ act'[c] # Err) =>
                /\ pc'[c] = "before_conditional_fetch"
                /\ act'[c].value.fetch.stage.response.body
                      = store[ReqKey(c)].response.body
                /\ act'[c].value.fetch.stage.policy = store[ReqKey(c)].policy
                /\ sent'[c] = None
                /\ store' = store
          /\ (/\ BeforeConditionalFetchStep(c)
              /\ \E v \in PolicyBeforeRequest(HeldPolicy(c), req[c]) :
                    /\ v.tag = "Fresh"
                    /\ stage'[c] = before_conditional_fetch(HeldResponse(c), v)) =>
                /\ mode[c] = "Default"
                /\ pc'[c] = "done"
                /\ out'[c] # Err
                /\ out'[c].value.body = store[ReqKey(c)].response.body
                /\ out'[c].value.status = store[ReqKey(c)].response.status
                /\ out'[c].value.headers[XCACHE] = HIT
                /\ out'[c].value.headers[XCACHELOOKUP] = HIT
                /\ sent'[c] = None
                /\ net'[c] = None
                /\ calls'[c] = <<GetCall(ReqMethod(c), ReqUrl(c), TRUE)>>
                /\ store' = store
                /\ puts' = puts]_vars

\* a Default HEAD request was answered with the stored b2 marked HIT/HIT
\* after its one get, nothing having been sent to the network
C30_Witness ==
    \E c \in Clients :
        /\ pc[c] = "done"
        /\ mode[c] = "Default"
        /\ req[c].method = "HEAD"
        /\ stage[c] # None
        /\ stage[c].value.tag = "Cached"
        /\ out[c] = Ok(stage[c].value.response)
        /\ out[c].value.body = "b2"
        /\ out[c].value.headers[XCACHE] = HIT
        /\ out[c].value.headers[XCACHELOOKUP] = HIT
        /\ "age" \in DOMAIN out[c].value.headers
        /\ sent[c] = None
        /\ calls[c] = <<GetCall("HEAD", "http://x/y", TRUE)>>


\* a successful delete of key k among the manager calls cs
Deletes(cs, k) ==
    \E i \in DOMAIN cs :
        cs[i].op = "delete" /\ cs[i].ok /\ Key(cs[i].method, cs[i].url) = k

C32_StaleServedWhenRevalidationFails ==
    [][\A c \in Clients :
          (/\ \/ AfterConditionalFetchStep(c) /\ is_server_error(net[c].status)
              \/ pc[c] = "fetch_conditional" /\ pc'[c] = "done"
           /\ mode[c] = "Default"
           /\ UrlValid(c)) =>
              /\ out'[c] # Err
              /\ out'[c].value.body = HeldResponse(c).body
              /\ out'[c].value.status = HeldResponse(c).status]_vars


\* C33: whenever before_request hands back a stored response (modes Default,
\* ForceCache, OnlyIfCached) whose stored warning header has a code outside
\* 100..199, the response handed back still carries that warning.
C33_StoredWarning2xxRetained ==
    [][\A c \in Clients :
          (/\ BeforeRequestStep(c)
           /\ mode[c] \in {"Default", "ForceCache", "OnlyIfCached"}
           /\ HasCall(NewCalls(c), "get")
           /\ ReqKey(c) \in DOMAIN store
           /\ "warning" \in DOMAIN store[ReqKey(c)].response.headers
           /\ warning_code(store[ReqKey(c)].response) \notin 100..199
           /\ act'[c] # Err) =>
              LET stored == store[ReqKey(c)].response
                  handed == HandedBack(act'[c])
              IN  /\ "warning" \in DOMAIN handed.headers
                  /\ handed.headers["warning"] = stored.headers["warning"]]_vars


\* C34: before_request and before_conditional_fetch never change the
\* store: whatever they mark, remove, add or merge on the copy they hand
\* back, a get of the same key right afterwards returns the entry exactly as
\* it was stored, and neither operation puts or deletes.
C34_BeforeOpsLeaveStore ==
    [][\A c \in Clients :
          (BeforeRequestStep(c) \/ BeforeConditionalFetchStep(c)) =>
              /\ store' = store
              /\ puts' = puts
              /\ ~HasCall(NewCalls(c), "put")
              /\ ~HasCall(NewCalls(c), "delete")
              /\ UrlValid(c) =>
                    ManagerGet(store', ReqMethod(c), ReqUrl(c)) =
                        ManagerGet(store, ReqMethod(c), ReqUrl(c))]_vars

\* a request was answered from the store with a copy that differs from the
\* entry (x-cache-lookup marked HIT, or the 1xx warning removed, or the 112
\* warning added, or the policy's headers merged) while the entry is still
\* as its put left it, marked MISS
C34_Witness ==
    \E c \in Clients :
        /\ pc[c] = "done"
        /\ out[c] # None
        /\ out[c] # Err
        /\ sent[c] = None
        /\ ReqKey(c) \in DOMAIN store
        /\ out[c].value.body = store[ReqKey(c)].response.body
        /\ out[c].value.headers[XCACHELOOKUP] = HIT
        /\ store[ReqKey(c)].response.headers[XCACHELOOKUP] = MISS
        /\ out[c].value.headers # store[ReqKey(c)].response.headers
        /\ \/ act[c].value.tag = "Cached"
           \/ stage[c] # None /\ stage[c].value.tag = "Cached"


C36_InvalidationTouchesGetOnly ==
    [][\A c \in Clients :
          (/\ pc[c] \in {"after_remote_fetch_first", "after_remote_fetch_second"}
           /\ pc'[c] # pc[c]
           /\ req[c].method \notin {"GET", "HEAD"}) =>
              /\ \A i \in DOMAIN NewCalls(c) :
                    /\ NewCalls(c)[i].op = "delete"
                    /\ NewCalls(c)[i].method = "GET"
                    /\ NewCalls(c)[i].url = ReqUrl(c)
              /\ Len(NewCalls(c)) <= 1
              /\ \A k \in DOMAIN store \ {Key("GET", ReqUrl(c))} :
                    /\ k \in DOMAIN store'
                    /\ store'[k] = store[k]
              /\ DOMAIN store' \subseteq DOMAIN store
              /\ ManagerGet(store', "HEAD", ReqUrl(c)) =
                    ManagerGet(store, "HEAD", ReqUrl(c))]_vars

\* a POST deleted the GET entry of its URL; the HEAD entry of that URL and
\* the entry of another URL are still in the store
C36_Witness ==
    \E c \in Clients :
        /\ pc[c] = "after_remote_fetch_second"
        /\ req[c].method = "POST"
        /\ calls[c] = <<DeleteCall("GET", ReqUrl(c), TRUE)>>
        /\ Key("GET", ReqUrl(c)) \notin DOMAIN store
        /\ Key("HEAD", ReqUrl(c)) \in DOMAIN store
        /\ store[Key("HEAD", ReqUrl(c))] = IdemEntry("HEAD", 2)
        /\ Key("GET", OtherUrl) \in DOMAIN store
        /\ store[Key("GET", OtherUrl)] = OtherUrlEntry


\* C37: if building the policy or parsing the URL or the status fails
\* inside after_remote_fetch or after_conditional_fetch, the operation
\* returns the error before any store operation: no manager call is made,
\* the store is unchanged (for a mutating method the GET entry of the URL is
\* not deleted) and the caller gets the error.
C37_ParseFailureBeforeStoreOps ==
    [][\A c \in Clients :
          (/\ AfterRemoteFetchStep(c) \/ AfterConditionalFetchStep(c)
           /\ ~StatusValid(net[c].status) \/ ~UrlValid(c)) =>
              /\ ret'[c] = Err
              /\ out'[c] = Err
              /\ NewCalls(c) = <<>>
              /\ store' = store
              /\ puts' = puts
              /\ Key("GET", ReqUrl(c)) \in DOMAIN store =>
                    Key("GET", ReqUrl(c)) \in DOMAIN store']_vars

\* a POST whose response has a status no policy can be built from got the
\* error, made no manager call, and the GET entry of its URL is still stored
C37_Witness ==
    \E c \in Clients :
        /\ pc[c] = "done"
        /\ req[c].method = "POST"
        /\ net[c] # None
        /\ ~StatusValid(net[c].status)
        /\ ret[c] = Err
        /\ out[c] = Err
        /\ calls[c] = <<>>
        /\ UrlValid(c)
        /\ Key("GET", ReqUrl(c)) \in DOMAIN store

\* a revalidation whose response has an invalid status got the error and
\* the entry it was revalidating is still stored
C37_WitnessConditional ==
    \E c \in Clients :
        /\ pc[c] = "done"
        /\ stage[c] # None
        /\ net[c] # None
        /\ ~StatusValid(net[c].status)
        /\ ret[c] = Err
        /\ ~HasCall(calls[c], "put")
        /\ ReqKey(c) \in DOMAIN store
        /\ store[ReqKey(c)].response.body = HeldResponse(c).body


\* a request whose URI is not an absolute URL was fetched and
\* after_remote_fetch returned the error without a manager call
C37_WitnessUrl ==
    \E c \in Clients :
        /\ pc[c] = "done"
        /\ req[c] # None
        /\ ~UrlValid(c)
        /\ net[c] # None
        /\ StatusValid(net[c].status)
        /\ ret[c] = Err
        /\ calls[c] = <<>>


\* a Default revalidation of c completes after another request, with a
\* mutating method and the same URL, has deleted the GET entry c was handed
C38_Case(c) ==
    /\ pc[c] = "after_conditional_fetch"
    /\ pc'[c] = "done"
    /\ mode[c] = "Default"
    /\ ReqKey(c) \notin DOMAIN store
    /\ \E d \in Clients2 \ {c} :
          /\ req[d] # None
          /\ req[d].method \notin {"GET", "HEAD"}
          /\ ReqUrl(d) = ReqUrl(c)
          /\ Deletes(calls[d], Key("GET", ReqUrl(c)))

\* C38 as stated: once the mutating request's after_remote_fetch has
\* deleted the GET entry, a revalidation that read the entry before the
\* delete does not put the pre-mutation body back.  Stated for the
\* revalidation answered 304, whose response has no body of its own.
C38_Original ==
    [][\A c \in Clients2 :
          (C38_Case(c) /\ net[c].status = 304) =>
              ~(/\ ReqKey(c) \in DOMAIN store'
                /\ store'[ReqKey(c)].response.body = HeldResponse(c).body)]_vars

\* C38: there is no ordering between a mutating request and a concurrent
\* Default revalidation of the same URL: a revalidation that read the entry
\* before the delete and completes after it writes as if the delete had not
\* happened.  Answered 304, its put stores the cached response it was
\* handed (the pre-mutation body, headers refreshed) under the key again;
\* answered 200, its put stores the new response; a failing put leaves the
\* key absent.  An absent key gets an entry only by a put of the stepping
\* request.
C38_RevalidationPutsBackAfterDelete ==
    [][\A c \in Clients2 :
          /\ C38_Case(c) =>
                /\ Len(NewCalls(c)) = 1
                /\ NewCalls(c)[1].op = "put"
                /\ IF NewCalls(c)[1].ok
                   THEN /\ ReqKey(c) \in DOMAIN store'
                        /\ net[c].status = 304 =>
                              /\ store'[ReqKey(c)].response.body =
                                    HeldResponse(c).body
                              /\ out'[c] = Ok(store'[ReqKey(c)].response)
                        /\ net[c].status = 200 =>
                              /\ store'[ReqKey(c)].response.body = net[c].body
                              /\ out'[c] = Ok(store'[ReqKey(c)].response)
                   ELSE /\ store' = store
                        /\ out'[c] = Err
          /\ \A k \in DOMAIN store' \ DOMAIN store :
                pc'[c] # pc[c] =>
                    \E i \in Writes(c) :
                        /\ NewCalls(c)[i].op = "put"
                        /\ Key(NewCalls(c)[i].method, NewCalls(c)[i].url) = k]_vars

\* c1's POST deleted the GET entry after c2's Default GET had read it; c2's
\* revalidation was answered 304 and put the body b1 back, which the store
\* holds now
C38_Witness ==
    /\ pc["c1"] = "done"
    /\ pc["c2"] = "done"
    /\ req["c1"].method = "POST"
    /\ calls["c1"] = <<DeleteCall("GET", ConcUri, TRUE)>>
    /\ req["c2"].method = "GET"
    /\ mode["c2"] = "Default"
    /\ net["c2"] # None
    /\ net["c2"].status = 304
    /\ Len(calls["c2"]) = 2
    /\ calls["c2"][1] = GetCall("GET", ConcUri, TRUE)
    /\ calls["c2"][2].op = "put"
    /\ calls["c2"][2].ok
    /\ Key("GET", ConcUri) \in DOMAIN store
    /\ store[Key("GET", ConcUri)].response.body = HeldResponse("c2").body
    /\ out["c2"] = Ok(store[Key("GET", ConcUri)].response)


-----------------------------------------------------------------------------
(* Termination of handle() *)

\* the requests of the termination check: a method that is looked up and
\* one that invalidates, a URI that parses and one that does not
LiveMethods == {"GET", "POST"}

LiveUris == {"http://x/y", "/y"}

\* a caller hands a request to handle(), in any mode
StartLive(c) ==
    /\ pc[c] \in {"idle", "done"}
    /\ started < MaxRequests
    /\ \E m \in Modes, method \in LiveMethods, uri \in LiveUris :
          /\ mode' = [mode EXCEPT ![c] = m]
          /\ req' = [req EXCEPT ![c] =
                        [method |-> method, uri |-> uri, headers |-> NoHeaders]]
    /\ pc' = [pc EXCEPT ![c] = "before_request"]
    /\ act' = [act EXCEPT ![c] = None]
    /\ stage' = [stage EXCEPT ![c] = None]
    /\ sent' = [sent EXCEPT ![c] = None]
    /\ net' = [net EXCEPT ![c] = None]
    /\ ret' = [ret EXCEPT ![c] = None]
    /\ out' = [out EXCEPT ![c] = None]
    /\ calls' = [calls EXCEPT ![c] = <<>>]
    /\ started' = started + 1
    /\ UNCHANGED <<store, puts>>

NextLive ==
    \E c \in Clients :
        \/ StartLive(c)
        \/ BeforeRequest(c)
        \/ BeforeConditionalFetch(c)
        \/ Fetch(c)
        \/ FetchFails(c)
        \/ AfterRemoteFetch(c)
        \/ AfterConditionalFetch(c)

\* handle() is one future: once polled it runs each awaited engine
\* operation and the fetch to their return, so every step of a request that
\* is enabled is eventually taken; nothing obliges a caller to start a
\* request
SpecLive ==
    /\ Init
    /\ [][NextLive]_vars
    /\ \A c \in Clients :
          /\ WF_vars(BeforeRequest(c))
          /\ WF_vars(BeforeConditionalFetch(c))
          /\ WF_vars(Fetch(c) \/ FetchFails(c))
          /\ WF_vars(AfterRemoteFetch(c))
          /\ WF_vars(AfterConditionalFetch(c))

\* the places of handle() in the order it passes them
PcOrder ==
    <<"before_request", "before_conditional_fetch", "fetch_normal",
      "fetch_force_no_cache", "fetch_conditional", "after_remote_fetch",
      "after_remote_fetch_force_no_cache", "after_conditional_fetch", "done">>

Position(p) == CHOOSE i \in DOMAIN PcOrder : PcOrder[i] = p

\* C39: every request driven through the adapter eventually reaches a
\* terminal outcome, a response or an error returned to the caller, given
\* that each store operation and the fetch return; along the way at most
\* one network fetch is issued, and handle() only moves forward: no engine
\* operation or fetch is run a second time.
C39_EveryRequestTerminates ==
    /\ \A c \in Clients :
          (pc[c] \notin {"idle", "done"}) ~> (pc[c] = "done" /\ out[c] # None)
    /\ [][\A c \in Clients :
             /\ (pc[c] \notin {"idle", "done"} /\ pc'[c] # pc[c]) =>
                   Position(pc'[c]) > Position(pc[c])
             /\ (/\ pc[c] \in {"fetch_normal", "fetch_force_no_cache",
                                "fetch_conditional"}
                 /\ <<pc[c], sent[c], net[c]>> # <<pc'[c], sent'[c], net'[c]>>) =>
                   /\ sent[c] = None
                   /\ sent'[c] # None
                   /\ pc'[c] # pc[c]
             /\ (pc[c] \notin {"idle", "done"} /\ sent[c] # None) =>
                   sent'[c] = sent[c]]_vars

\* a request went the longest way (lookup, before_conditional_fetch, one
\* conditional fetch, after_conditional_fetch with its put) and the caller
\* has its response
C39_Witness ==
    \E c \in Clients :
        /\ pc[c] = "done"
        /\ out[c] # None
        /\ out[c] # Err
        /\ stage[c] # None
        /\ sent[c] # None
        /\ net[c] # None
        /\ Len(calls[c]) = 2
        /\ calls[c][1].op = "get"
        /\ calls[c][2].op = "put"

=============================================================================
